---- MODULE Spec2Model ----
(***************************************************************************)
(* A model of the html2xhtml conversion engine (ruslano69/SHP,             *)
(* tools/html2xhtml/pkg/converter): the metrics collector under concurrent *)
(* use, and the Convert / ConvertWithContext orchestration with its        *)
(* defect scanner, tree validator, normalizer and serializer.              *)
(***************************************************************************)
EXTENDS Integers, Sequences, FiniteSets, TLC

Nil == "nil"

(***************************************************************************)
(* errors.go: ErrorCode (iota + 1)                                         *)
(***************************************************************************)
ErrParseFailed == 1
ErrValidationFailed == 2
ErrConversionFailed == 3
ErrTimeout == 4
ErrContextCanceled == 5
ErrInvalidInput == 6

ErrorCodes == ErrParseFailed .. ErrInvalidInput

(***************************************************************************)
(* converter.go: ChangeType (iota)                                         *)
(***************************************************************************)
ChangeUnclosedTag == 0
ChangeUnquotedAttr == 1
ChangeUppercaseTag == 2
ChangeInvalidNesting == 3
ChangeMissingNamespace == 4

ChangeTypes == ChangeUnclosedTag .. ChangeMissingNamespace

(***************************************************************************)
(* Bounds of the concurrent metrics model.                                 *)
(***************************************************************************)
NumThreads == 2
MaxOps == 3

Threads == 1 .. NumThreads

\* Arguments the recording operations are called with.
Durations == {3}
InputSizes == {5}
OutputSizes == {7}
RecordedErrors == {ErrParseFailed, ErrContextCanceled}
RecordedChanges == {ChangeUppercaseTag, ChangeUnclosedTag}

(***************************************************************************)
(* Go maps: a function whose domain is the set of keys present; a missing  *)
(* key reads as the zero value.                                            *)
(***************************************************************************)
EmptyMap == [k \in {} |-> 0]

MapGet(f, k) == IF k \in DOMAIN f THEN f[k] ELSE 0

MapSet(f, k, v) == [x \in (DOMAIN f) \cup {k} |-> IF x = k THEN v ELSE f[x]]

\* m[k]++
MapInc(f, k) == MapSet(f, k, MapGet(f, k) + 1)

MapSum(f) ==
  LET RECURSIVE Sum(_)
      Sum(S) == IF S = {} THEN 0
                ELSE LET k == CHOOSE x \in S : TRUE IN f[k] + Sum(S \ {k})
  IN Sum(DOMAIN f)

(***************************************************************************)
(* DefaultMetrics: the fields of the collector (the mutex is the variable  *)
(* mu below).                                                              *)
(***************************************************************************)
NewMetrics ==
  [ totalConversions      |-> 0,
    successfulConversions |-> 0,
    failedConversions     |-> 0,
    totalDuration         |-> 0,
    totalBytesProcessed   |-> 0,
    totalBytesOutput      |-> 0,
    changesApplied        |-> EmptyMap,
    errorsByType          |-> EmptyMap ]

\* atomic.AddInt64(&m.<field>, delta)
AtomicAdd(mm, fld, delta) == [mm EXCEPT ![fld] = @ + delta]

\* The five atomic additions of RecordConversion, in program order.
RecordConversionAdds(duration, inputSize, outputSize) ==
  << <<"totalConversions", 1>>,
     <<"successfulConversions", 1>>,
     <<"totalDuration", duration>>,
     <<"totalBytesProcessed", inputSize>>,
     <<"totalBytesOutput", outputSize>> >>

\* (a variant: RecordError without the addition to totalConversions)
RecordErrorAddsNoTotal ==
  << <<"failedConversions", 1>> >>

\* The two atomic additions RecordError makes before it takes the mutex.
RecordErrorAdds ==
  << <<"totalConversions", 1>>,
     <<"failedConversions", 1>> >>

\* (a variant: m.errorsByType[errorType] = 1, the old count is not read)
ErrorsByTypeOverwrite(mm, errorType) ==
  [mm EXCEPT !.errorsByType = MapSet(@, errorType, 1)]

\* m.errorsByType[errorType]++ (inside the mutex)
ErrorsByTypeInc(mm, errorType) ==
  [mm EXCEPT !.errorsByType = MapInc(@, errorType)]

\* m.changesApplied[changeType]++ (inside the mutex)
ChangesAppliedInc(mm, changeType) ==
  [mm EXCEPT !.changesApplied = MapInc(@, changeType)]

RECURSIVE ApplyAdds(_, _)
ApplyAdds(mm, adds) ==
  IF adds = << >> THEN mm
  ELSE ApplyAdds(AtomicAdd(mm, Head(adds)[1], Head(adds)[2]), Tail(adds))

\* A whole call of each recording operation, run without interference.
RecordConversionCall(mm, duration, inputSize, outputSize) ==
  ApplyAdds(mm, RecordConversionAdds(duration, inputSize, outputSize))

RecordErrorCall(mm, errorType) ==
  ErrorsByTypeInc(ApplyAdds(mm, RecordErrorAdds), errorType)

RecordChangeCall(mm, changeType) == ChangesAppliedInc(mm, changeType)

\* (a variant: Reset stores 0 in the counters and keeps the maps' contents)
ResetCallKeepsMaps(mm) ==
  [NewMetrics EXCEPT !.changesApplied = mm.changesApplied,
                     !.errorsByType = mm.errorsByType]

\* A whole call of Reset, run without interference.
ResetCall(mm) == NewMetrics

\* Go's integer division, which truncates toward zero
Quo(a, b) ==
  LET abs(x) == IF x < 0 THEN -x ELSE x
      q == abs(a) \div abs(b)
  IN IF (a < 0) = (b < 0) THEN q ELSE -q

\* time.Duration(totalDuration / total)
AvgOf(totalDuration, total) == Quo(totalDuration, total)

\* A whole call of GetStats, run without interference.
GetStatsCall(mm) ==
  [ TotalConversions      |-> mm.totalConversions,
    SuccessfulConversions |-> mm.successfulConversions,
    FailedConversions     |-> mm.failedConversions,
    AverageDuration       |-> IF mm.totalConversions > 0
                              THEN AvgOf(mm.totalDuration, mm.totalConversions)
                              ELSE 0,
    TotalBytesProcessed   |-> mm.totalBytesProcessed,
    TotalBytesOutput      |-> mm.totalBytesOutput,
    ChangesApplied        |-> mm.changesApplied,
    ErrorsByType          |-> mm.errorsByType ]

----
(***************************************************************************)
(* Text: a Go string or []byte is the sequence of its bytes, so that Len   *)
(* is Go's len. An ASCII byte is written as the string of its character,   *)
(* any other byte as "x" and its two hexadecimal digits: the two bytes of  *)
(* U+00E9 in UTF-8 are "xC3", "xA9". The texts are valid UTF-8.            *)
(* (The vertical tab, which has no escape in a TLA+ string, is "x0B".)     *)
(***************************************************************************)
UpperSeq == <<"A", "B", "C", "D", "E", "F", "G", "H", "I", "J", "K", "L", "M", "N", "O", "P", "Q", "R", "S", "T", "U", "V", "W", "X", "Y", "Z">>

LowerSeq == <<"a", "b", "c", "d", "e", "f", "g", "h", "i", "j", "k", "l", "m", "n", "o", "p", "q", "r", "s", "t", "u", "v", "w", "x", "y", "z">>

Upper == {UpperSeq[i] : i \in 1 .. Len(UpperSeq)}

Lower == {LowerSeq[i] : i \in 1 .. Len(LowerSeq)}

Digits == {"0", "1", "2", "3", "4", "5", "6", "7", "8", "9"}

\* \w of Go's regexp
WordChars == Upper \cup Lower \cup Digits \cup {"_"}

\* \s of Go's regexp: [\t\n\f\r ]
SpaceChars == {" ", "\t", "\n", "\f", "\r"}

\* the value of a byte from 0x80 on, and 0 for an ASCII byte
ByteVal(b) ==
  LET high == <<"x80", "x81", "x82", "x83", "x84", "x85", "x86", "x87", "x88", "x89", "x8A", "x8B", "x8C", "x8D", "x8E", "x8F", "x90", "x91", "x92", "x93", "x94", "x95", "x96", "x97", "x98", "x99", "x9A", "x9B", "x9C", "x9D", "x9E", "x9F", "xA0", "xA1", "xA2", "xA3", "xA4", "xA5", "xA6", "xA7", "xA8", "xA9", "xAA", "xAB", "xAC", "xAD", "xAE", "xAF", "xB0", "xB1", "xB2", "xB3", "xB4", "xB5", "xB6", "xB7", "xB8", "xB9", "xBA", "xBB", "xBC", "xBD", "xBE", "xBF", "xC0", "xC1", "xC2", "xC3", "xC4", "xC5", "xC6", "xC7", "xC8", "xC9", "xCA", "xCB", "xCC", "xCD", "xCE", "xCF", "xD0", "xD1", "xD2", "xD3", "xD4", "xD5", "xD6", "xD7", "xD8", "xD9", "xDA", "xDB", "xDC", "xDD", "xDE", "xDF", "xE0", "xE1", "xE2", "xE3", "xE4", "xE5", "xE6", "xE7", "xE8", "xE9", "xEA", "xEB", "xEC", "xED", "xEE", "xEF", "xF0", "xF1", "xF2", "xF3", "xF4", "xF5", "xF6", "xF7", "xF8", "xF9", "xFA", "xFB", "xFC", "xFD", "xFE", "xFF">>
  IN IF \E k \in 1 .. Len(high) : high[k] = b
     THEN 127 + (CHOOSE k \in 1 .. Len(high) : high[k] = b)
     ELSE 0

\* utf8.DecodeRuneInString(s[i:]): the number of bytes of the character
\* that starts at i. A lead byte 0xC2 .. 0xDF has one continuation byte,
\* 0xE0 .. 0xEF two, 0xF0 .. 0xF4 three; a continuation byte is
\* 0x80 .. 0xBF, the first one after 0xE0 from 0xA0, after 0xED to 0x9F,
\* after 0xF0 from 0x90 and after 0xF4 to 0x8F. Any other byte, and a lead
\* byte without its continuation bytes, is a character of one byte.
RuneLen(s, i) ==
  LET v == ByteVal(s[i])
      n == IF v >= 194 /\ v <= 223 THEN 2
           ELSE IF v >= 224 /\ v <= 239 THEN 3
           ELSE IF v >= 240 /\ v <= 244 THEN 4
           ELSE 1
      lo == IF v = 224 THEN 160 ELSE IF v = 240 THEN 144 ELSE 128
      hi == IF v = 237 THEN 159 ELSE IF v = 244 THEN 143 ELSE 191
  IN IF /\ n > 1
        /\ i + n - 1 <= Len(s)
        /\ ByteVal(s[i + 1]) >= lo /\ ByteVal(s[i + 1]) <= hi
        /\ \A k \in i + 2 .. i + n - 1 : ByteVal(s[k]) >= 128 /\ ByteVal(s[k]) <= 191
     THEN n
     ELSE 1

\* after the lead byte 0xC3, the second bytes of the upper-case letters
\* U+00C0 .. U+00DE (U+00D7, the sign, is not one), and those of their
\* lower-case forms U+00E0 .. U+00FE
UpperOther == <<"x80", "x81", "x82", "x83", "x84", "x85", "x86", "x87", "x88", "x89", "x8A", "x8B", "x8C", "x8D", "x8E", "x8F", "x90", "x91", "x92", "x93", "x94", "x95", "x96", "x98", "x99", "x9A", "x9B", "x9C", "x9D", "x9E">>

LowerOther == <<"xA0", "xA1", "xA2", "xA3", "xA4", "xA5", "xA6", "xA7", "xA8", "xA9", "xAA", "xAB", "xAC", "xAD", "xAE", "xAF", "xB0", "xB1", "xB2", "xB3", "xB4", "xB5", "xB6", "xB8", "xB9", "xBA", "xBB", "xBC", "xBD", "xBE">>

\* unicode.ToLower of an ASCII character
LowerOfChar(c) ==
  IF \E i \in 1 .. Len(UpperSeq) : UpperSeq[i] = c
  THEN LowerSeq[CHOOSE i \in 1 .. Len(UpperSeq) : UpperSeq[i] = c]
  ELSE c

\* the i-th byte of strings.ToLower(s): the lower-case form of a letter of
\* one byte, or of a letter of two bytes of which this is the second; of
\* the characters beyond ASCII the texts hold those of U+0080 .. U+00FF,
\* and the lower-case form of each of these has the same lead byte
LowerOfByte(s, i) ==
  IF i > 1 /\ s[i - 1] = "xC3" /\ \E k \in 1 .. Len(UpperOther) : UpperOther[k] = s[i]
  THEN LowerOther[CHOOSE k \in 1 .. Len(UpperOther) : UpperOther[k] = s[i]]
  ELSE LowerOfChar(s[i])

\* strings.ToLower
ToLower(s) == [i \in 1 .. Len(s) |-> LowerOfByte(s, i)]

\* s[from .. to] (1-based, inclusive)
Slice(s, from, to) == SubSeq(s, from, to)

HasPrefix(s, p) == Len(s) >= Len(p) /\ SubSeq(s, 1, Len(p)) = p

HasSuffix(s, p) == Len(s) >= Len(p) /\ SubSeq(s, Len(s) - Len(p) + 1, Len(s)) = p

\* strings.TrimPrefix
TrimPrefix(s, p) == IF HasPrefix(s, p) THEN SubSeq(s, Len(p) + 1, Len(s)) ELSE s

\* strings.TrimSuffix
TrimSuffix(s, p) == IF HasSuffix(s, p) THEN SubSeq(s, 1, Len(s) - Len(p)) ELSE s

\* unicode.IsSpace, of the characters up to U+00FF: the number of bytes of
\* the white space character that begins at i (ends at i), or 0; these are
\* \t, \n, \v (the byte 0x0B), \f, \r, the space, U+0085 and U+00A0
SpaceFrom(s, i) ==
  IF s[i] \in SpaceChars \cup {"x0B"} THEN 1
  ELSE IF i < Len(s) /\ s[i] = "xC2" /\ s[i + 1] \in {"x85", "xA0"} THEN 2
  ELSE 0

SpaceUpTo(s, i) ==
  IF s[i] \in SpaceChars \cup {"x0B"} THEN 1
  ELSE IF i > 1 /\ s[i - 1] = "xC2" /\ s[i] \in {"x85", "xA0"} THEN 2
  ELSE 0

\* strings.TrimSpace
RECURSIVE TrimSpace(_)
TrimSpace(s) ==
  IF s = << >> THEN s
  ELSE IF SpaceFrom(s, 1) > 0 THEN TrimSpace(SubSeq(s, SpaceFrom(s, 1) + 1, Len(s)))
  ELSE IF SpaceUpTo(s, Len(s)) > 0 THEN TrimSpace(SubSeq(s, 1, Len(s) - SpaceUpTo(s, Len(s))))
  ELSE s

RECURSIVE Concat(_)
Concat(parts) == IF parts = << >> THEN << >> ELSE Head(parts) \o Concat(Tail(parts))

(***************************************************************************)
(* prevalidator.go: the four patterns of NewPreValidator, matched the way  *)
(* Go's regexp does (leftmost match, greedy repetition, alternatives in    *)
(* order). An item of a pattern matches one character of the text, of one  *)
(* or more bytes; the characters of the classes named are ASCII, so a run  *)
(* of characters in a class, or not in it, is a run of bytes that starts   *)
(* and ends between two characters.                                        *)
(***************************************************************************)
CharAt(s, i, class) == i <= Len(s) /\ s[i] \in class

\* the index after the longest run, from i, of characters in class
\* (negated: of characters not in class)
RECURSIVE RunEnd(_, _, _, _)
RunEnd(s, i, class, negated) ==
  IF i <= Len(s) /\ ((s[i] \in class) # negated)
  THEN RunEnd(s, i + 1, class, negated)
  ELSE i

\* the alternatives of unclosedVoidRe, in the order of the pattern
VoidPatternNames ==
  << <<"b", "r">>, <<"i", "m", "g">>, <<"i", "n", "p", "u", "t">>, <<"m", "e", "t", "a">>, <<"l", "i", "n", "k">>, <<"h", "r">>, <<"a", "r", "e", "a">>,
     <<"b", "a", "s", "e">>, <<"c", "o", "l">>, <<"e", "m", "b", "e", "d">>, <<"p", "a", "r", "a", "m">>, <<"s", "o", "u", "r", "c", "e">>, <<"t", "r", "a", "c", "k">>, <<"w", "b", "r">> >>

\* </?[A-Z][A-Z0-9]*
\* the index after the match that starts at i, or 0
UppercaseTagEnd(s, i) ==
  IF ~CharAt(s, i, {"<"}) THEN 0
  ELSE LET j == IF CharAt(s, i + 1, {"/"}) /\ CharAt(s, i + 2, Upper)
                THEN i + 2 ELSE i + 1
       IN IF CharAt(s, j, Upper)
          THEN RunEnd(s, j + 1, Upper \cup Digits, FALSE)
          ELSE 0

\* \s+[A-Z][A-Z0-9_-]*=
UppercaseAttrEnd(s, i) ==
  IF ~CharAt(s, i, SpaceChars) THEN 0
  ELSE LET j == RunEnd(s, i, SpaceChars, FALSE)
           k == RunEnd(s, j + 1, Upper \cup Digits \cup {"_", "-"}, FALSE)
       IN IF CharAt(s, j, Upper) /\ CharAt(s, k, {"="}) THEN k + 1 ELSE 0

\* \s+(\w+)=([^"'][^\s>]+) : [end, start of group 1, index of "="], or 0
\* ([^"'] takes one character, of RuneLen bytes, and [^\s>]+ at least one
\* character after it)
UnquotedAttrParts(s, i) ==
  IF ~CharAt(s, i, SpaceChars) THEN <<0, 0, 0>>
  ELSE LET j == RunEnd(s, i, SpaceChars, FALSE)
           k == RunEnd(s, j, WordChars, FALSE)
       IN IF /\ k > j
             /\ CharAt(s, k, {"="})
             /\ k + 1 <= Len(s) /\ s[k + 1] \notin {"\"", "'"}
          THEN LET r == k + 1 + RuneLen(s, k + 1)
                   e == RunEnd(s, r, SpaceChars \cup {">"}, TRUE)
               IN IF e > r THEN <<e, j, k>> ELSE <<0, 0, 0>>
          ELSE <<0, 0, 0>>

UnquotedAttrEnd(s, i) == UnquotedAttrParts(s, i)[1]

\* <(br|img|...)(\s[^/>]*|)> with the alternative nm of group 1
VoidWithNameEnd(s, i, nm) ==
  LET p == i + 1 + Len(nm) IN
  IF ~(CharAt(s, i, {"<"}) /\ Len(s) >= p - 1 /\ SubSeq(s, i + 1, p - 1) = nm) THEN 0
  ELSE IF CharAt(s, p, SpaceChars)
  THEN LET q == RunEnd(s, p + 1, {"/", ">"}, TRUE)
       IN IF CharAt(s, q, {">"}) THEN q + 1 ELSE 0
  ELSE IF CharAt(s, p, {">"}) THEN p + 1
  ELSE 0

\* the first alternative of group 1 with which the pattern matches at i, or 0
UnclosedVoidName(s, i) ==
  IF ~CharAt(s, i, {"<"}) THEN 0
  ELSE LET ok == {n \in 1 .. Len(VoidPatternNames) :
                    VoidWithNameEnd(s, i, VoidPatternNames[n]) > 0}
       IN IF ok = {} THEN 0 ELSE CHOOSE n \in ok : \A o \in ok : n <= o

UnclosedVoidEnd(s, i) ==
  IF UnclosedVoidName(s, i) = 0 THEN 0
  ELSE VoidWithNameEnd(s, i, VoidPatternNames[UnclosedVoidName(s, i)])

MatchEnd(re, s, i) ==
  CASE re = "uppercaseTagRe"  -> UppercaseTagEnd(s, i)
    [] re = "uppercaseAttrRe" -> UppercaseAttrEnd(s, i)
    [] re = "unquotedAttrRe"  -> UnquotedAttrEnd(s, i)
    [] re = "unclosedVoidRe"  -> UnclosedVoidEnd(s, i)

\* FindAllString(input, -1): the successive non-overlapping leftmost matches,
\* each as [from, to)
RECURSIVE FindAllFrom(_, _, _)
FindAllFrom(re, s, i) ==
  IF i > Len(s) THEN << >>
  ELSE LET e == MatchEnd(re, s, i)
       IN IF e > 0 THEN << <<i, e>> >> \o FindAllFrom(re, s, e)
          ELSE FindAllFrom(re, s, i + 1)

FindAll(re, s) == FindAllFrom(re, s, 1)

(***************************************************************************)
(* prevalidator.go: IssueType (iota) and PreValidator.Validate             *)
(***************************************************************************)
IssueUppercaseTag == 0
IssueUppercaseAttr == 1
IssueUnquotedAttr == 2
IssueUnclosedVoid == 3
IssueInvalidNesting == 4

\* (a variant in which every loop keys its seen map by the matched text)
SeenKeyWholeMatch(re, s, mt) ==
  IF re = "unclosedVoidRe"
  THEN SubSeq(s, mt[1] + 1, mt[2] - 2)
  ELSE SubSeq(s, mt[1], mt[2] - 1)

\* the key under which a match is deduplicated (the seen map of its loop)
SeenKey(re, s, mt) ==
  LET whole == SubSeq(s, mt[1], mt[2] - 1) IN
  CASE re = "uppercaseTagRe"  -> TrimPrefix(TrimPrefix(whole, <<"<", "/">>), <<"<">>)
    [] re = "uppercaseAttrRe" -> TrimSuffix(TrimSpace(whole), <<"=">>)
    [] re = "unquotedAttrRe"  -> whole
    [] re = "unclosedVoidRe"  -> VoidPatternNames[UnclosedVoidName(s, mt[1])]

\* the ValidationIssue appended for a match that was not seen before
IssueOf(re, s, mt) ==
  LET key == SeenKey(re, s, mt)
      parts == UnquotedAttrParts(s, mt[1])
  IN
  CASE re = "uppercaseTagRe" ->
         [Type |-> IssueUppercaseTag, Message |-> "Tag must be lowercase",
          Original |-> key, Fixed |-> ToLower(key)]
    [] re = "uppercaseAttrRe" ->
         [Type |-> IssueUppercaseAttr, Message |-> "Attribute must be lowercase",
          Original |-> key, Fixed |-> ToLower(key)]
    [] re = "unquotedAttrRe" ->
         [Type |-> IssueUnquotedAttr, Message |-> "Attribute value must be quoted",
          Original |-> key,
          Fixed |-> SubSeq(s, parts[2], parts[3] - 1) \o <<"=", "\"">>
                    \o SubSeq(s, parts[3] + 1, parts[1] - 1) \o <<"\"">>]
    [] re = "unclosedVoidRe" ->
         [Type |-> IssueUnclosedVoid, Message |-> "Void element must be self-closing",
          Original |-> <<"<">> \o key \o <<">">>, Fixed |-> <<"<">> \o key \o <<" ", "/", ">">>]

\* one loop of Validate: the issues of the matches whose key was not seen
RECURSIVE IssuesOfMatches(_, _, _, _)
IssuesOfMatches(re, s, matches, seen) ==
  IF matches = << >> THEN << >>
  ELSE LET key == SeenKey(re, s, Head(matches)) IN
       IF key \in seen THEN IssuesOfMatches(re, s, Tail(matches), seen)
       ELSE <<IssueOf(re, s, Head(matches))>>
            \o IssuesOfMatches(re, s, Tail(matches), seen \cup {key})

ScanClass(re, s) == IssuesOfMatches(re, s, FindAll(re, s), {})

\* PreValidator.Validate
PreValidate(input) ==
  ScanClass("uppercaseTagRe", input) \o ScanClass("uppercaseAttrRe", input)
    \o ScanClass("unquotedAttrRe", input) \o ScanClass("unclosedVoidRe", input)

----
(***************************************************************************)
(* Optional values: << >> is Go's nil, <<v>> a value.                      *)
(***************************************************************************)
None == << >>

Some(v) == <<v>>

(***************************************************************************)
(* golang.org/x/net/html Node: Type, Data, Attr and the children in        *)
(* FirstChild / NextSibling order.                                         *)
(***************************************************************************)
Attribute(key, val) == [Key |-> key, Val |-> val]

ElementNode(data, attr, kids) ==
  [Type |-> "ElementNode", Data |-> data, Attr |-> attr, Kids |-> kids]

TextNode(data) == [Type |-> "TextNode", Data |-> data, Attr |-> << >>, Kids |-> << >>]

CommentNode(data) ==
  [Type |-> "CommentNode", Data |-> data, Attr |-> << >>, Kids |-> << >>]

DocumentNode(kids) ==
  [Type |-> "DocumentNode", Data |-> << >>, Attr |-> << >>, Kids |-> kids]

(***************************************************************************)
(* converter.go: isVoidElement                                             *)
(***************************************************************************)
VoidElements ==
  { <<"a", "r", "e", "a">>, <<"b", "a", "s", "e">>, <<"b", "r">>, <<"c", "o", "l">>, <<"e", "m", "b", "e", "d">>, <<"h", "r">>, <<"i", "m", "g">>, <<"i", "n", "p", "u", "t">>,
    <<"l", "i", "n", "k">>, <<"m", "e", "t", "a">>, <<"p", "a", "r", "a", "m">>, <<"s", "o", "u", "r", "c", "e">>, <<"t", "r", "a", "c", "k">>, <<"w", "b", "r">> }

isVoidElement(tag) == tag \in VoidElements

\* errors.New(text + name)
PlainError(text, name) == [Text |-> text, Name |-> name]

(***************************************************************************)
(* converter.go: validateNode. The error of the first violation in         *)
(* depth-first order, or None.                                             *)
(***************************************************************************)
RECURSIVE FirstUppercaseAttr(_)
FirstUppercaseAttr(attr) ==
  IF attr = << >> THEN None
  ELSE IF Head(attr).Key # ToLower(Head(attr).Key)
  THEN Some(PlainError("attribute must be lowercase: ", Head(attr).Key))
  ELSE FirstUppercaseAttr(Tail(attr))

\* (a variant that checks the attributes before the children of a void
\* element)
validateElementAttrsFirst(n) ==
  IF n.Type # "ElementNode" THEN None
  ELSE IF n.Data # ToLower(n.Data)
  THEN Some(PlainError("tag must be lowercase: ", n.Data))
  ELSE IF FirstUppercaseAttr(n.Attr) # None THEN FirstUppercaseAttr(n.Attr)
  ELSE IF isVoidElement(n.Data) /\ n.Kids # << >>
  THEN Some(PlainError("void element cannot have children: ", n.Data))
  ELSE None

\* the checks validateNode makes on the node itself
validateElement(n) ==
  IF n.Type # "ElementNode" THEN None
  ELSE IF n.Data # ToLower(n.Data)
  THEN Some(PlainError("tag must be lowercase: ", n.Data))
  ELSE IF isVoidElement(n.Data) /\ n.Kids # << >>
  THEN Some(PlainError("void element cannot have children: ", n.Data))
  ELSE FirstUppercaseAttr(n.Attr)

RECURSIVE validateNode(_)
RECURSIVE validateChildren(_)
validateNode(n) ==
  IF validateElement(n) # None THEN validateElement(n)
  ELSE validateChildren(n.Kids)

validateChildren(kids) ==
  IF kids = << >> THEN None
  ELSE IF validateNode(Head(kids)) # None THEN validateNode(Head(kids))
  ELSE validateChildren(Tail(kids))

(***************************************************************************)
(* converter.go: Change and fixNode. fixNode rewrites the tree in place    *)
(* and appends to result.Changes: here it returns the rewritten node and   *)
(* the extended list.                                                      *)
(***************************************************************************)
Change(type, message, original, fixed) ==
  [Type |-> type, Location |-> "", Message |-> message,
   Original |-> original, Fixed |-> fixed]

\* (a variant that lowercases the tag and leaves the attribute names)
fixElementTagOnly(n) ==
  IF n.Type # "ElementNode" THEN n
  ELSE [n EXCEPT !.Data = ToLower(@)]

\* the element itself: its tag and its attribute names
fixElement(n) ==
  IF n.Type # "ElementNode" THEN n
  ELSE [n EXCEPT !.Data = ToLower(@),
                 !.Attr = [i \in 1 .. Len(@) |-> [@[i] EXCEPT !.Key = ToLower(@)]]]

\* (a variant that records the Change for every element, whatever its tag)
fixElementChangesAlways(n) ==
  IF n.Type = "ElementNode"
  THEN <<Change(ChangeUppercaseTag, "Converted tag to lowercase", n.Data, ToLower(n.Data))>>
  ELSE << >>

\* the Change fixNode appends for the node itself
fixElementChanges(n) ==
  IF n.Type = "ElementNode" /\ n.Data # ToLower(n.Data)
  THEN <<Change(ChangeUppercaseTag, "Converted tag to lowercase", n.Data, ToLower(n.Data))>>
  ELSE << >>

RECURSIVE fixNode(_, _)
RECURSIVE fixChildren(_, _)
\* (a variant that records the Change of a node after those of its children)
fixNodeChildrenFirst(n, changes) ==
  LET sub == fixChildren(n.Kids, changes)
  IN [node |-> [fixElement(n) EXCEPT !.Kids = sub.kids],
      changes |-> sub.changes \o fixElementChanges(n)]

\* (a variant that fixes the node and leaves its children alone)
fixNodeNoDescent(n, changes) ==
  [node |-> fixElement(n), changes |-> changes \o fixElementChanges(n)]

fixNode(n, changes) ==
  LET sub == fixChildren(n.Kids, changes \o fixElementChanges(n))
  IN [node |-> [fixElement(n) EXCEPT !.Kids = sub.kids], changes |-> sub.changes]

fixChildren(kids, changes) ==
  IF kids = << >> THEN [kids |-> << >>, changes |-> changes]
  ELSE LET first == fixNode(Head(kids), changes)
           rest == fixChildren(Tail(kids), first.changes)
       IN [kids |-> <<first.node>> \o rest.kids, changes |-> rest.changes]

(***************************************************************************)
(* converter.go: renderXHTML, with html.EscapeString. The bytes written to *)
(* the sink; the results of w.Write are discarded and the function returns *)
(* nil on every path.                                                      *)
(***************************************************************************)
EscapeChar(c) ==
  CASE c = "&"  -> <<"&", "a", "m", "p", ";">>
    [] c = "'"  -> <<"&", "#", "3", "9", ";">>
    [] c = "<"  -> <<"&", "l", "t", ";">>
    [] c = ">"  -> <<"&", "g", "t", ";">>
    [] c = "\"" -> <<"&", "#", "3", "4", ";">>
    [] c = "\r" -> <<"&", "#", "1", "3", ";">>
    [] OTHER    -> <<c>>

\* html.EscapeString
EscapeString(s) == Concat([i \in 1 .. Len(s) |-> EscapeChar(s[i])])

renderAttr(attr) ==
  Concat([i \in 1 .. Len(attr) |->
            <<" ">> \o attr[i].Key \o <<"=", "\"">> \o EscapeString(attr[i].Val) \o <<"\"">>])

RECURSIVE renderXHTML(_)
RECURSIVE renderChildren(_)
\* (a variant without the self-closing form of the void elements)
renderXHTMLNoVoid(n) ==
  CASE n.Type = "DocumentNode" -> renderChildren(n.Kids)
    [] n.Type = "ElementNode" ->
         <<"<">> \o n.Data \o renderAttr(n.Attr) \o <<">">>
         \o renderChildren(n.Kids) \o <<"<", "/">> \o n.Data \o <<">">>
    [] n.Type = "TextNode" -> EscapeString(n.Data)
    [] n.Type = "CommentNode" -> <<"<", "!", "-", "-">> \o n.Data \o <<"-", "-", ">">>
    [] OTHER -> << >>

renderXHTML(n) ==
  CASE n.Type = "DocumentNode" -> renderChildren(n.Kids)
    [] n.Type = "ElementNode" ->
         IF isVoidElement(n.Data)
         THEN <<"<">> \o n.Data \o renderAttr(n.Attr) \o <<" ", "/", ">">>
         ELSE <<"<">> \o n.Data \o renderAttr(n.Attr) \o <<">">>
              \o renderChildren(n.Kids) \o <<"<", "/">> \o n.Data \o <<">">>
    [] n.Type = "TextNode" -> EscapeString(n.Data)
    [] n.Type = "CommentNode" -> <<"<", "!", "-", "-">> \o n.Data \o <<"-", "-", ">">>
    [] OTHER -> << >>

renderChildren(kids) ==
  IF kids = << >> THEN << >>
  ELSE renderXHTML(Head(kids)) \o renderChildren(Tail(kids))

(***************************************************************************)
(* converter.go: renderXHTML, write by write, on the writer it is given:   *)
(* every call of it is given a bytes.Buffer (converter.go:144,             *)
(* context.go:83), which takes the bytes of every write and returns no     *)
(* error. The writer counts the writes made to it and those it refused.    *)
(***************************************************************************)
NewBuffer == [written |-> << >>, writes |-> 0, failed |-> 0]

\* (a variant: a writer that takes two writes and refuses the others)
BufferWriteFull(buf, bytes) ==
  IF buf.writes >= 2
  THEN [sink |-> [buf EXCEPT !.writes = @ + 1, !.failed = @ + 1],
        err |-> Some(PlainError("short write", << >>))]
  ELSE [sink |-> [buf EXCEPT !.written = @ \o bytes, !.writes = @ + 1], err |-> None]

\* n, err := buf.Write(bytes): err is always nil
BufferWrite(buf, bytes) ==
  [sink |-> [buf EXCEPT !.written = @ \o bytes, !.writes = @ + 1], err |-> None]

\* w.Write(bytes) as a statement: what Write returns is dropped
WriteDropped(sink, bytes) == BufferWrite(sink, bytes).sink

\* for _, attr := range n.Attr { w.Write(...) }
RECURSIVE writeAttrs(_, _)
writeAttrs(attr, sink) ==
  IF attr = << >> THEN sink
  ELSE writeAttrs(Tail(attr), WriteDropped(sink, renderAttr(<<Head(attr)>>)))

\* renderXHTML(n, w, opts): the error returned, and the sink after it
RECURSIVE renderXHTMLTo(_, _)
RECURSIVE renderChildrenTo(_, _)
renderXHTMLTo(n, sink) ==
  CASE n.Type = "DocumentNode" -> renderChildrenTo(n.Kids, sink)
    [] n.Type = "ElementNode" ->
         LET opened == writeAttrs(n.Attr, WriteDropped(sink, <<"<">> \o n.Data)) IN
         IF isVoidElement(n.Data)
         THEN [err |-> None, sink |-> WriteDropped(opened, <<" ", "/", ">">>)]
         ELSE LET inner == renderChildrenTo(n.Kids, WriteDropped(opened, <<">">>)) IN
              IF inner.err # None THEN inner
              ELSE [err |-> None,
                    sink |-> WriteDropped(inner.sink, <<"<", "/">> \o n.Data \o <<">">>)]
    [] n.Type = "TextNode" ->
         [err |-> None, sink |-> WriteDropped(sink, EscapeString(n.Data))]
    [] n.Type = "CommentNode" ->
         [err |-> None,
          sink |-> WriteDropped(sink, <<"<", "!", "-", "-">> \o n.Data \o <<"-", "-", ">">>)]
    [] OTHER -> [err |-> None, sink |-> sink]

\* the loop over the children, left at the first error a child returns
renderChildrenTo(kids, sink) ==
  IF kids = << >> THEN [err |-> None, sink |-> sink]
  ELSE LET first == renderXHTMLTo(Head(kids), sink) IN
       IF first.err # None THEN first
       ELSE renderChildrenTo(Tail(kids), first.sink)

(***************************************************************************)
(* The input documents: a sequence of elements, each written in one of the *)
(* forms below. html.Parse puts the elements of such a text, in order,     *)
(* into the body of html > (head, body); the tokenizer lowercases tag and  *)
(* attribute names, and names inside svg are adjusted to their mixed-case  *)
(* SVG spelling.                                                           *)
(***************************************************************************)
Fragments ==
  << [text |-> <<"<", "p", ">", "a", "<", "/", "p", ">">>,
      node |-> ElementNode(<<"p">>, << >>, <<TextNode(<<"a">>)>>)],
     [text |-> <<"<", "D", "I", "V", ">", "x", "<", "/", "D", "I", "V", ">">>,
      node |-> ElementNode(<<"d", "i", "v">>, << >>, <<TextNode(<<"x">>)>>)],
     [text |-> <<"<", "d", "I", "V", ">", "<", "/", "d", "I", "V", ">">>,
      node |-> ElementNode(<<"d", "i", "v">>, << >>, << >>)],
     [text |-> <<"<", "b", "r", ">">>,
      node |-> ElementNode(<<"b", "r">>, << >>, << >>)],
     [text |-> <<"<", "b", "r", " ", "/", ">">>,
      node |-> ElementNode(<<"b", "r">>, << >>, << >>)],
     [text |-> <<"<", "p", " ", "i", "d", "=", "1", ">", "<", "/", "p", ">">>,
      node |-> ElementNode(<<"p">>, <<Attribute(<<"i", "d">>, <<"1">>)>>, << >>)],
     [text |-> <<"<", "i", "m", "g", " ", "s", "r", "c", "=", "a", "b", ">">>,
      node |-> ElementNode(<<"i", "m", "g">>, <<Attribute(<<"s", "r", "c">>, <<"a", "b">>)>>, << >>)],
     [text |-> <<"<", "a", " ", "H", "R", "E", "F", "=", "\"", "x", "\"", ">", "<", "/", "a", ">">>,
      node |-> ElementNode(<<"a">>, <<Attribute(<<"h", "r", "e", "f">>, <<"x">>)>>, << >>)],
     [text |-> <<"<", "a", " ", "h", "R", "e", "f", "=", "\"", "x", "\"", ">", "<", "/", "a", ">">>,
      node |-> ElementNode(<<"a">>, <<Attribute(<<"h", "r", "e", "f">>, <<"x">>)>>, << >>)],
     [text |-> <<"<", "i", "m", "g", " ", "s", "r", "c", "=", "\"", "a", "/", "b", "\"", ">">>,
      node |-> ElementNode(<<"i", "m", "g">>, <<Attribute(<<"s", "r", "c">>, <<"a", "/", "b">>)>>, << >>)],
     [text |-> <<"<", "s", "v", "g", " ", "v", "i", "e", "w", "B", "o", "x", "=", "\"", "0", "\"", ">", "<", "/", "s", "v", "g", ">">>,
      node |-> ElementNode(<<"s", "v", "g">>, <<Attribute(<<"v", "i", "e", "w", "B", "o", "x">>, <<"0">>)>>, << >>)],
     [text |-> <<"<", "s", "v", "g", ">", "<", "c", "l", "i", "p", "P", "a", "t", "h", ">", "<", "/", "c", "l", "i", "p", "P", "a", "t", "h", ">", "<", "/", "s", "v", "g", ">">>,
      node |-> ElementNode(<<"s", "v", "g">>, << >>, <<ElementNode(<<"c", "l", "i", "p", "P", "a", "t", "h">>, << >>, << >>)>>)],
     [text |-> <<"<", "b", "r", " ", "i", "d", "=", "\"", "a", "\"", ">">>,
      node |-> ElementNode(<<"b", "r">>, <<Attribute(<<"i", "d">>, <<"a">>)>>, << >>)],
     [text |-> <<"<", "p", ">", "xC3", "xA9", "<", "/", "p", ">">>,
      node |-> ElementNode(<<"p">>, << >>, <<TextNode(<<"xC3", "xA9">>)>>)],
     [text |-> <<"<", "p", " ", "i", "d", "=", "xC3", "xA9", ">", "<", "/", "p", ">">>,
      node |-> ElementNode(<<"p">>, <<Attribute(<<"i", "d">>, <<"xC3", "xA9">>)>>, << >>)] >>

\* the longest document, in elements, given to Convert and to ConvertWithContext
MaxFrags == 2
MaxCtxFrags == 1

\* the documents of at most n elements, each as the sequence of its elements
SourcesUpTo(n) == UNION {[1 .. k -> 1 .. Len(Fragments)] : k \in 0 .. n}

\* the bytes of a document
TextOf(src) == Concat([i \in 1 .. Len(src) |-> Fragments[src[i]].text])

\* the tree html.Parse builds for it
TreeOf(src) ==
  DocumentNode(<<
    ElementNode(<<"h", "t", "m", "l">>, << >>, <<
      ElementNode(<<"h", "e", "a", "d">>, << >>, << >>),
      ElementNode(<<"b", "o", "d", "y">>, << >>, [i \in 1 .. Len(src) |-> Fragments[src[i]].node]) >>) >>)

\* html.Parse: the tree and no error, or no tree and the parser's error
ParserError == PlainError("html: ", <<"p", "a", "r", "s", "e", " ", "e", "r", "r", "o", "r">>)

ParseOutcomes(src) ==
  { [doc |-> Some(TreeOf(src)), err |-> None],
    [doc |-> None, err |-> Some(ParserError)] }

----
(***************************************************************************)
(* errors.go: NewError. Message is the list of the strings concatenated    *)
(* into the message.                                                       *)
(***************************************************************************)
NewError(code, message, cause) == [Code |-> code, Message |-> message, Cause |-> cause]

(***************************************************************************)
(* The cancellation signal (context.Context): live, or done because it was *)
(* cancelled or because its deadline expired.                              *)
(***************************************************************************)
CtxStates == {"live", "canceled", "expired"}

\* <-ctx.Done() is ready
CtxDone(c) == c # "live"

\* ctx.Err()
CtxErr(c) ==
  IF c = "canceled" THEN PlainError("context canceled", << >>)
  ELSE PlainError("context deadline exceeded", << >>)

(***************************************************************************)
(* converter.go: Options, Result and the collector of a DefaultConverter   *)
(* (New: NoOpMetrics; NewWithMetrics: the collector given, possibly nil).  *)
(***************************************************************************)
OptionSets == [StrictMode : BOOLEAN, AutoFix : BOOLEAN]

Collectors == {"DefaultMetrics", "NoOpMetrics", "nil"}

\* result := &Result{OriginalSize: int64(len(input))}
NewResult(input) ==
  [Success |-> FALSE, Output |-> << >>, OriginalSize |-> Len(input), FinalSize |-> 0,
   Changes |-> << >>, Errors |-> << >>, Warnings |-> << >>]

(***************************************************************************)
(* A call in progress: the Result under construction, the parsed tree, the *)
(* collector's state, and what the call has done so far.                   *)
(*   notes   the calls made on the collector (when it is not nil)          *)
(*   ran     the phases performed                                          *)
(*   polls   the polls of the signal: where, and whether it was done       *)
(*   outcome running, returned or panicked; ret the values returned        *)
(***************************************************************************)
NewCall(input, mm) ==
  [result |-> NewResult(input), doc |-> None, m |-> mm,
   notes |-> << >>, ran |-> << >>, polls |-> << >>,
   outcome |-> "running", ret |-> [result |-> None, err |-> None]]

Running(w) == w.outcome = "running"

\* return nil, err
ReturnError(w, e) ==
  [w EXCEPT !.outcome = "returned", !.ret = [result |-> None, err |-> Some(e)]]

\* return result, nil
ReturnResult(w) ==
  [w EXCEPT !.outcome = "returned", !.ret = [result |-> Some(w.result), err |-> None]]

\* a nil *html.Node is dereferenced: the goroutine panics, nothing is returned
Panic(w) == [w EXCEPT !.outcome = "panicked"]

\* if c.metrics != nil { c.metrics.RecordError(code) }
NotifyError(w, col, code) ==
  IF col = "nil" THEN w
  ELSE [w EXCEPT !.notes = Append(@, <<"RecordError", code>>),
                 !.m = IF col = "DefaultMetrics" THEN RecordErrorCall(@, code) ELSE @]

\* c.metrics.RecordConversion(time.Since(startTime), OriginalSize, FinalSize)
NotifyConversion(w, col, duration) ==
  IF col = "nil" THEN w
  ELSE [w EXCEPT !.notes = Append(@, <<"RecordConversion", duration>>),
                 !.m = IF col = "DefaultMetrics"
                       THEN RecordConversionCall(@, duration, w.result.OriginalSize,
                                                 w.result.FinalSize)
                       ELSE @]

\* for _, change := range result.Changes { c.metrics.RecordChange(change.Type) }
RECURSIVE NotifyChanges(_, _, _)
NotifyChanges(w, col, changes) ==
  IF col = "nil" \/ changes = << >> THEN w
  ELSE NotifyChanges(
         [w EXCEPT !.notes = Append(@, <<"RecordChange", Head(changes).Type>>),
                   !.m = IF col = "DefaultMetrics"
                         THEN RecordChangeCall(@, Head(changes).Type) ELSE @],
         col, Tail(changes))

(***************************************************************************)
(* converter.go: Convert, phase by phase. A phase leaves a call that has   *)
(* returned or panicked as it is.                                          *)
(***************************************************************************)
\* (a variant that records an attribute-casing issue as a casing change)
ChangeOfIssueByCasing(issue) ==
  Change(CASE issue.Type \in {IssueUppercaseTag, IssueUppercaseAttr} -> ChangeUppercaseTag
           [] issue.Type = IssueUnquotedAttr -> ChangeUnquotedAttr
           [] OTHER -> ChangeUnclosedTag,
         issue.Message, issue.Original, issue.Fixed)

\* the Change recorded for a ValidationIssue
ChangeOfIssue(issue) ==
  Change(CASE issue.Type = IssueUppercaseTag -> ChangeUppercaseTag
           [] issue.Type \in {IssueUppercaseAttr, IssueUnquotedAttr} -> ChangeUnquotedAttr
           [] issue.Type = IssueUnclosedVoid -> ChangeUnclosedTag
           [] OTHER -> ChangeUnclosedTag,
         issue.Message, issue.Original, issue.Fixed)

\* step 1: pre-validation
ScanPhase(w, input, opts) ==
  IF ~Running(w) \/ ~(opts.StrictMode \/ opts.AutoFix) THEN w
  ELSE LET issues == PreValidate(input)
           w1 == [w EXCEPT !.ran = Append(@, "scan")]
       IN IF opts.StrictMode /\ Len(issues) > 0
          THEN ReturnError(w1, NewError(ErrValidationFailed,
                                        <<issues[1].Message, ": ", issues[1].Original>>,
                                        None))
          ELSE IF opts.AutoFix
          THEN [w1 EXCEPT !.result.Changes =
                            @ \o [i \in 1 .. Len(issues) |-> ChangeOfIssue(issues[i])]]
          ELSE w1

\* step 2: html.Parse, with the outcome parsed
ParsePhase(w, opts, col, parsed) ==
  IF ~Running(w) THEN w
  ELSE LET w1 == [w EXCEPT !.ran = Append(@, "parse"), !.doc = parsed.doc] IN
       IF parsed.err = None THEN w1
       ELSE LET w2 == NotifyError(w1, col, ErrParseFailed) IN
            IF opts.StrictMode
            THEN ReturnError(w2, NewError(ErrParseFailed, <<"failed to parse HTML">>,
                                          parsed.err))
            ELSE [w2 EXCEPT !.result.Errors = Append(@, parsed.err[1])]

\* (a variant that goes on after a validation error in strict mode too)
AfterValidateLenient(w, opts, col, verr) ==
  IF verr = None THEN w ELSE NotifyError(w, col, ErrValidationFailed)

\* what follows the call of validateNode, whose error is verr
AfterValidate(w, opts, col, verr) ==
  IF verr = None THEN w
  ELSE LET w1 == NotifyError(w, col, ErrValidationFailed) IN
       IF opts.StrictMode
       THEN ReturnError(w1, NewError(ErrValidationFailed, <<"validation failed">>, verr))
       ELSE w1

\* (a variant in which the validation normalizes the names it objects to)
ValidatePhaseNormalizing(w, opts, col) ==
  IF ~Running(w) \/ opts.AutoFix THEN w
  ELSE IF w.doc = None THEN Panic(w)
  ELSE AfterValidate([w EXCEPT !.ran = Append(@, "validate"),
                               !.doc = Some(fixNode(w.doc[1], << >>).node)],
                     opts, col, validateNode(w.doc[1]))

\* step 3: validation of the tree, when AutoFix is off
ValidatePhase(w, opts, col) ==
  IF ~Running(w) \/ opts.AutoFix THEN w
  ELSE IF w.doc = None THEN Panic(w)
  ELSE AfterValidate([w EXCEPT !.ran = Append(@, "validate")], opts, col,
                     validateNode(w.doc[1]))

\* (a variant that takes the size of the input for the size of the output)
RenderPhaseSizeOfInput(w) ==
  IF ~Running(w) THEN w
  ELSE IF w.doc = None THEN Panic(w)
  ELSE LET out == renderXHTML(w.doc[1]) IN
       [w EXCEPT !.ran = Append(@, "render"),
                 !.result.Output = out,
                 !.result.FinalSize = w.result.OriginalSize,
                 !.result.Success = (Len(w.result.Errors) = 0)]

\* (a variant that leaves Success as the Result was created)
RenderPhaseNoSuccess(w) ==
  IF ~Running(w) THEN w
  ELSE IF w.doc = None THEN Panic(w)
  ELSE LET out == renderXHTML(w.doc[1]) IN
       [w EXCEPT !.ran = Append(@, "render"),
                 !.result.Output = out,
                 !.result.FinalSize = Len(out)]

\* step 4: serialization, and the Result's output fields
RenderPhase(w) ==
  IF ~Running(w) THEN w
  ELSE IF w.doc = None THEN Panic(w)
  ELSE LET out == renderXHTML(w.doc[1]) IN
       [w EXCEPT !.ran = Append(@, "render"),
                 !.result.Output = out,
                 !.result.FinalSize = Len(out),
                 !.result.Success = (Len(w.result.Errors) = 0)]

\* the metrics of a finished Convert, and its return
FinishConvert(w, col) ==
  IF ~Running(w) THEN w
  ELSE ReturnResult(NotifyChanges(w, col, w.result.Changes))

\* DefaultConverter.Convert
ConvertCall(w, input, opts, col, parsed) ==
  FinishConvert(
    RenderPhase(
      ValidatePhase(
        ParsePhase(
          ScanPhase(w, input, opts),
          opts, col, parsed),
        opts, col)),
    col)

(***************************************************************************)
(* converter.go: Validate. It returns an error only: ret.err is None for   *)
(* nil, an Error built by NewError, or the plain error of validateNode.    *)
(***************************************************************************)
\* return c.validateNode(doc, result)
ReturnValidation(w, verr) ==
  [w EXCEPT !.ran = Append(@, "validate"), !.outcome = "returned",
            !.ret = [result |-> None, err |-> verr]]

\* (a variant without the scan of the raw text)
ValidateCallNoScan(w, input, parsed) ==
  LET w2 == [w EXCEPT !.ran = Append(@, "parse"), !.doc = parsed.doc] IN
  IF parsed.err # None
  THEN ReturnError(w2, NewError(ErrParseFailed, <<"failed to parse HTML">>, parsed.err))
  ELSE ReturnValidation(w2, validateNode(parsed.doc[1]))

\* DefaultConverter.Validate
ValidateCall(w, input, parsed) ==
  LET issues == PreValidate(input)
      w1 == [w EXCEPT !.ran = Append(@, "scan")]
      w2 == [w1 EXCEPT !.ran = Append(@, "parse"), !.doc = parsed.doc]
  IN IF Len(issues) > 0
     THEN ReturnError(w1, NewError(ErrValidationFailed,
                                   <<issues[1].Message, ": ", issues[1].Original>>, None))
     ELSE IF parsed.err # None
     THEN ReturnError(w2, NewError(ErrParseFailed, <<"failed to parse HTML">>, parsed.err))
     ELSE ReturnValidation(w2, validateNode(parsed.doc[1]))

(***************************************************************************)
(* context.go: ValidateWithContext, phase by phase. No collector is told   *)
(* of anything.                                                            *)
(***************************************************************************)
\* select { case <-ctx.Done(): return NewError(ErrContextCanceled, ...) default: }
ValidatePoll(w, c, at, message) ==
  IF ~Running(w) THEN w
  ELSE LET w1 == [w EXCEPT !.polls = Append(@, [at |-> at, done |-> CtxDone(c)])] IN
       IF CtxDone(c)
       THEN ReturnError(w1, NewError(ErrContextCanceled, <<message>>, Some(CtxErr(c))))
       ELSE w1

\* doc, err := html.Parse(...); if err != nil { return NewError(ErrParseFailed, ...) }
ValidateParsePhase(w, parsed) ==
  IF ~Running(w) THEN w
  ELSE LET w1 == [w EXCEPT !.ran = Append(@, "parse"), !.doc = parsed.doc] IN
       IF parsed.err # None
       THEN ReturnError(w1, NewError(ErrParseFailed, <<"failed to parse HTML">>, parsed.err))
       ELSE w1

\* return c.validateNodeWithContext(ctx, doc, result)
validateNodeWithContext(w, c) ==
  LET w1 == ValidatePoll(w, c, "validate", "context canceled during validation") IN
  IF ~Running(w1) THEN w1
  ELSE ReturnValidation(w1, validateNode(w1.doc[1]))

(***************************************************************************)
(* context.go: ConvertWithContext, phase by phase.                         *)
(***************************************************************************)
\* (a variant that tells an expired deadline from a cancel() by the kind)
CancelCodeByCause(c) == IF c = "expired" THEN ErrTimeout ELSE ErrContextCanceled

\* the kind of the error built when a poll finds the signal done
CancelCode(c) == ErrContextCanceled

\* (a variant that returns the error without telling the collector)
PollPhaseUnrecorded(w, col, c, at, message) ==
  IF ~Running(w) THEN w
  ELSE LET w1 == [w EXCEPT !.polls = Append(@, [at |-> at, done |-> CtxDone(c)])] IN
       IF CtxDone(c)
       THEN ReturnError(w1, NewError(CancelCode(c), <<message>>, Some(CtxErr(c))))
       ELSE w1

\* select { case <-ctx.Done(): ... return nil, NewError(...) default: }
PollPhase(w, col, c, at, message) ==
  IF ~Running(w) THEN w
  ELSE LET w1 == [w EXCEPT !.polls = Append(@, [at |-> at, done |-> CtxDone(c)])] IN
       IF CtxDone(c)
       THEN ReturnError(NotifyError(w1, col, CancelCode(c)),
                        NewError(CancelCode(c), <<message>>, Some(CtxErr(c))))
       ELSE w1

\* fixNodeWithContext: its own poll, then fixNode
FixWithContext(w, col, c) ==
  LET w1 == [w EXCEPT !.polls = Append(@, [at |-> "fix", done |-> CtxDone(c)])] IN
  IF CtxDone(c)
  THEN ReturnError(NotifyError(w1, col, ErrConversionFailed),
                   NewError(CancelCode(c), <<"context canceled during fix">>,
                            Some(CtxErr(c))))
  ELSE IF w.doc = None THEN Panic(w1)
  ELSE LET fixed == fixNode(w.doc[1], w.result.Changes) IN
       [w1 EXCEPT !.ran = Append(@, "fix"),
                  !.doc = Some(fixed.node),
                  !.result.Changes = fixed.changes]

\* validateNodeWithContext: its own poll, then validateNode
ValidateWithContextPhase(w, opts, col, c) ==
  LET w1 == [w EXCEPT !.polls = Append(@, [at |-> "validate", done |-> CtxDone(c)])] IN
  IF CtxDone(c)
  THEN AfterValidate(w1, opts, col,
                     Some(NewError(CancelCode(c), <<"context canceled during validation">>,
                                   Some(CtxErr(c)))))
  ELSE IF w.doc = None THEN Panic(w1)
  ELSE AfterValidate([w1 EXCEPT !.ran = Append(@, "validate")], opts, col,
                     validateNode(w.doc[1]))

\* the validate-or-fix phase of ConvertWithContext
FixOrValidatePhase(w, opts, col, c) ==
  IF ~Running(w) THEN w
  ELSE IF opts.AutoFix THEN FixWithContext(w, col, c)
  ELSE ValidateWithContextPhase(w, opts, col, c)

\* the metrics of a finished ConvertWithContext, and its return
FinishWithContext(w, col, duration) ==
  IF ~Running(w) THEN w
  ELSE ReturnResult(NotifyChanges(NotifyConversion(w, col, duration), col,
                                  w.result.Changes))

----
VARIABLES
  m,        \* the DefaultMetrics object
  \* the threads that use the collector concurrently
  mu,       \* its RWMutex: [w |-> writer thread or 0, r |-> set of readers]
  pc,       \* per thread: the statement the thread is at
  arg,      \* per thread: the arguments of the call in progress
  loc,      \* per thread: the locals of the call in progress
  stats,    \* per thread: << >>, or <<the snapshot its last GetStats returned>>
  overlap,  \* per thread: a recording call was in progress during its GetStats
  calls,    \* the recording calls that have returned, and the calls started
  resets,   \* the number of Reset calls started
  \* one call of the converter
  call,     \* the entry point called
  src,      \* the document given, as the sequence of its elements
  input,    \* its bytes
  opts,     \* the Options given
  collector,\* the converter's collector
  ctx,      \* the cancellation signal
  ctxAt,    \* where the call was when the signal became done
  cpc,      \* the phase the call is at
  cv,       \* the call in progress (without the collector's state, which is m)
  \* a tree given to the Normalizer and the Serializer
  tnode,    \* the tree
  tchanges, \* result.Changes
  fixes,    \* the number of fixNode runs on the tree
  after,    \* per run of fixNode: the tree and the number of Changes after it
  shown,    \* per number of runs: << >>, or <<the serialization of the tree>>
  checked,  \* << >>, or <<what validateNode returned for the tree>>
  sunk,     \* << >>, or <<what renderXHTML returned, and the buffer it wrote to>>
  \* a collector used by one caller, and the snapshot the caller holds
  heap,     \* the Go maps allocated: per reference, the contents of the map
  refs,     \* the references held by the collector's two map fields
  snap,     \* << >>, or <<the ConversionStats value the caller holds>>
  given,    \* the durations given to RecordConversion since the last Reset
  \* the net/http middleware
  config,   \* its Config
  cache,    \* << >> (no cache), or <<the items of the Cache: path -> bytes>>
  pending,  \* per request in progress: the state of its handler
  last,     \* << >>, or <<the request last answered, and the reply written>>
  good,     \* the (path, Output) of the conversions that succeeded
  served    \* the number of requests received

tvars == <<mu, pc, arg, loc, stats, overlap, calls, resets>>

cvars == <<call, src, input, opts, collector, ctx, ctxAt, cpc, cv>>

nvars == <<tnode, tchanges, fixes, after, shown, checked, sunk>>

hvars == <<heap, refs, snap, given>>

wvars == <<config, cache, pending, last, good, served>>

vars == <<m, tvars, cvars, nvars, hvars, wvars>>

NoLocals == [total |-> 0, avg |-> 0, changes |-> EmptyMap, errors |-> EmptyMap,
             t2 |-> 0, succ |-> 0, failed |-> 0, bytesIn |-> 0, bytesOut |-> 0,
             tmp |-> 0]

NoArgs == [kind |-> Nil]

InitThreads ==
  /\ mu = [w |-> 0, r |-> {}]
  /\ pc = [t \in Threads |-> "idle"]
  /\ arg = [t \in Threads |-> NoArgs]
  /\ loc = [t \in Threads |-> NoLocals]
  /\ stats = [t \in Threads |-> << >>]
  /\ overlap = [t \in Threads |-> FALSE]
  /\ calls = [started |-> 0, active |-> 0, raced |-> FALSE,
              conv |-> 0, err |-> EmptyMap, chg |-> EmptyMap]
  /\ resets = 0

Recording(t) == arg[t].kind \in {"RecordConversion", "RecordError", "RecordChange"}

InGetStats(t) == arg[t].kind = "GetStats"

\* A step of a recording call by t is seen by every GetStats in progress.
MarkOverlap(t) ==
  overlap' = [u \in Threads |-> IF u # t /\ InGetStats(u) THEN TRUE ELSE overlap[u]]

----
(***************************************************************************)
(* A thread calls an operation: the call starts with its first statement.  *)
(* Threads run the same code, so thread t+1 makes its first call only      *)
(* after thread t has made one (the other orders are renamings of these).  *)
(***************************************************************************)
MayStart(t) ==
  /\ pc[t] = "idle"
  /\ calls.started < MaxOps
  /\ t <= calls.active + 1

Started(t) ==
  [calls EXCEPT !.started = @ + 1,
                !.active = IF t > @ THEN t ELSE @]

\* a recording call starts while another one is in progress
StartedRecording(t) ==
  [Started(t) EXCEPT !.raced = @ \/ \E u \in Threads \ {t} : Recording(u)]

\* One atomic.AddInt64 of RecordConversion or RecordError by thread t, the
\* first of the additions a.
AddStep(t, kind, a, errorType) ==
  /\ m' = AtomicAdd(m, Head(a)[1], Head(a)[2])
  /\ arg' = [arg EXCEPT ![t] = IF Tail(a) = << >> /\ kind = "RecordConversion"
                                THEN NoArgs    \* RecordConversion returns
                                ELSE [kind |-> kind, adds |-> Tail(a),
                                      errorType |-> errorType]]
  /\ pc' = [pc EXCEPT ![t] = IF Tail(a) # << >> THEN "add"
                             ELSE IF kind = "RecordError" THEN "lock"
                             ELSE "idle"]

StartRecordConversion(t) ==
  /\ MayStart(t)
  /\ \E d \in Durations, i \in InputSizes, o \in OutputSizes :
       AddStep(t, "RecordConversion", RecordConversionAdds(d, i, o), 0)
  /\ calls' = StartedRecording(t)
  /\ MarkOverlap(t)
  /\ UNCHANGED <<mu, loc, stats, resets, cvars, nvars, hvars, wvars>>

StartRecordError(t) ==
  /\ MayStart(t)
  /\ \E e \in RecordedErrors : AddStep(t, "RecordError", RecordErrorAdds, e)
  /\ calls' = StartedRecording(t)
  /\ MarkOverlap(t)
  /\ UNCHANGED <<mu, loc, stats, resets, cvars, nvars, hvars, wvars>>

\* the remaining additions of a call in progress
AtomicAddStep(t) ==
  /\ pc[t] = "add"
  /\ AddStep(t, arg[t].kind, arg[t].adds, arg[t].errorType)
  /\ calls' = IF pc'[t] = "idle" THEN [calls EXCEPT !.conv = @ + 1] ELSE calls
  /\ MarkOverlap(t)
  /\ UNCHANGED <<mu, loc, stats, resets, cvars, nvars, hvars, wvars>>

\* m.mu.Lock() of RecordError
RecordErrorLock(t) ==
  /\ pc[t] = "lock"
  /\ mu.w = 0 /\ mu.r = {}
  /\ mu' = [mu EXCEPT !.w = t]
  /\ pc' = [pc EXCEPT ![t] = "inc"]
  /\ MarkOverlap(t)
  /\ UNCHANGED <<m, arg, loc, stats, calls, resets, cvars, nvars, hvars, wvars>>

\* RecordChange: m.mu.Lock()
StartRecordChange(t) ==
  /\ MayStart(t)
  /\ mu.w = 0 /\ mu.r = {}
  /\ mu' = [mu EXCEPT !.w = t]
  /\ \E c \in RecordedChanges :
       arg' = [arg EXCEPT ![t] = [kind |-> "RecordChange", changeType |-> c]]
  /\ pc' = [pc EXCEPT ![t] = "inc"]
  /\ calls' = StartedRecording(t)
  /\ MarkOverlap(t)
  /\ UNCHANGED <<m, loc, stats, resets, cvars, nvars, hvars, wvars>>

\* m.errorsByType[errorType]++ ; m.mu.Unlock()
RecordErrorInc(t) ==
  /\ pc[t] = "inc" /\ arg[t].kind = "RecordError"
  /\ mu.w = t
  /\ m' = ErrorsByTypeInc(m, arg[t].errorType)
  /\ mu' = [mu EXCEPT !.w = 0]
  /\ pc' = [pc EXCEPT ![t] = "idle"]
  /\ calls' = [calls EXCEPT !.err = MapInc(@, arg[t].errorType)]
  /\ arg' = [arg EXCEPT ![t] = NoArgs]
  /\ MarkOverlap(t)
  /\ UNCHANGED <<loc, stats, resets, cvars, nvars, hvars, wvars>>

\* m.changesApplied[changeType]++ ; m.mu.Unlock()
RecordChangeInc(t) ==
  /\ pc[t] = "inc" /\ arg[t].kind = "RecordChange"
  /\ mu.w = t
  /\ m' = ChangesAppliedInc(m, arg[t].changeType)
  /\ mu' = [mu EXCEPT !.w = 0]
  /\ pc' = [pc EXCEPT ![t] = "idle"]
  /\ calls' = [calls EXCEPT !.chg = MapInc(@, arg[t].changeType)]
  /\ arg' = [arg EXCEPT ![t] = NoArgs]
  /\ MarkOverlap(t)
  /\ UNCHANGED <<loc, stats, resets, cvars, nvars, hvars, wvars>>

----
(***************************************************************************)
(* GetStats: RLock, then one atomic load per step, then RUnlock.           *)
(***************************************************************************)
StartGetStats(t) ==
  /\ MayStart(t)
  /\ mu.w = 0
  /\ mu' = [mu EXCEPT !.r = @ \cup {t}]
  /\ arg' = [arg EXCEPT ![t] = [kind |-> "GetStats"]]
  /\ pc' = [pc EXCEPT ![t] = "ld_total"]
  \* a recording call already in progress overlaps this GetStats
  /\ overlap' = [overlap EXCEPT ![t] = \E u \in Threads \ {t} : Recording(u)]
  /\ calls' = Started(t)
  /\ UNCHANGED <<m, loc, stats, resets, cvars, nvars, hvars, wvars>>

\* total := atomic.LoadInt64(&m.totalConversions)
GetStatsLoadTotal(t) ==
  /\ pc[t] = "ld_total"
  /\ loc' = [loc EXCEPT ![t].total = m.totalConversions]
  /\ pc' = [pc EXCEPT ![t] = IF m.totalConversions > 0 THEN "ld_avg" ELSE "copy"]
  /\ UNCHANGED <<m, mu, arg, stats, overlap, calls, resets, cvars, nvars, hvars, wvars>>

\* avgDuration = time.Duration(atomic.LoadInt64(&m.totalDuration) / total)
GetStatsLoadAvg(t) ==
  /\ pc[t] = "ld_avg"
  /\ loc' = [loc EXCEPT ![t].avg = AvgOf(m.totalDuration, loc[t].total)]
  /\ pc' = [pc EXCEPT ![t] = "copy"]
  /\ UNCHANGED <<m, mu, arg, stats, overlap, calls, resets, cvars, nvars, hvars, wvars>>

\* the two map copies; every writer of the maps is kept out by the read lock
GetStatsCopyMaps(t) ==
  /\ pc[t] = "copy"
  /\ loc' = [loc EXCEPT ![t].changes = m.changesApplied,
                        ![t].errors = m.errorsByType]
  /\ pc' = [pc EXCEPT ![t] = "ld_t2"]
  /\ UNCHANGED <<m, mu, arg, stats, overlap, calls, resets, cvars, nvars, hvars, wvars>>

\* the loads of the returned struct literal, in field order
GetStatsLoadField(t) ==
  /\ \/ /\ pc[t] = "ld_t2"
        /\ loc' = [loc EXCEPT ![t].t2 = m.totalConversions]
        /\ pc' = [pc EXCEPT ![t] = "ld_succ"]
     \/ /\ pc[t] = "ld_succ"
        /\ loc' = [loc EXCEPT ![t].succ = m.successfulConversions]
        /\ pc' = [pc EXCEPT ![t] = "ld_failed"]
     \/ /\ pc[t] = "ld_failed"
        /\ loc' = [loc EXCEPT ![t].failed = m.failedConversions]
        /\ pc' = [pc EXCEPT ![t] = "ld_in"]
     \/ /\ pc[t] = "ld_in"
        /\ loc' = [loc EXCEPT ![t].bytesIn = m.totalBytesProcessed]
        /\ pc' = [pc EXCEPT ![t] = "ld_out"]
     \/ /\ pc[t] = "ld_out"
        /\ loc' = [loc EXCEPT ![t].bytesOut = m.totalBytesOutput]
        /\ pc' = [pc EXCEPT ![t] = "runlock"]
  /\ UNCHANGED <<m, mu, arg, stats, overlap, calls, resets, cvars, nvars, hvars, wvars>>

\* the ConversionStats value built from the locals
StatsOf(l) ==
  [ TotalConversions      |-> l.t2,
    SuccessfulConversions |-> l.succ,
    FailedConversions     |-> l.failed,
    AverageDuration       |-> l.avg,
    TotalBytesProcessed   |-> l.bytesIn,
    TotalBytesOutput      |-> l.bytesOut,
    ChangesApplied        |-> l.changes,
    ErrorsByType          |-> l.errors ]

\* return ConversionStats{...}; the deferred RUnlock runs
GetStatsReturn(t) ==
  /\ pc[t] = "runlock"
  /\ mu' = [mu EXCEPT !.r = @ \ {t}]
  /\ stats' = [stats EXCEPT ![t] = << [s |-> StatsOf(loc[t]), clean |-> ~overlap[t]] >>]
  /\ arg' = [arg EXCEPT ![t] = NoArgs]
  /\ loc' = [loc EXCEPT ![t] = NoLocals]
  /\ pc' = [pc EXCEPT ![t] = "idle"]
  /\ UNCHANGED <<m, overlap, calls, resets, cvars, nvars, hvars, wvars>>

----
(***************************************************************************)
(* Reset: Lock, six atomic stores, two fresh maps, Unlock.                 *)
(***************************************************************************)
ResetFields == <<"totalConversions", "successfulConversions", "failedConversions",
                 "totalDuration", "totalBytesProcessed", "totalBytesOutput">>

StartReset(t) ==
  /\ MayStart(t)
  /\ mu.w = 0 /\ mu.r = {}
  /\ mu' = [mu EXCEPT !.w = t]
  /\ arg' = [arg EXCEPT ![t] = [kind |-> "Reset", fields |-> ResetFields]]
  /\ pc' = [pc EXCEPT ![t] = "store"]
  /\ calls' = Started(t)
  /\ resets' = resets + 1
  /\ UNCHANGED <<m, loc, stats, overlap, cvars, nvars, hvars, wvars>>

\* atomic.StoreInt64(&m.<field>, 0)
ResetStore(t) ==
  /\ pc[t] = "store"
  /\ m' = [m EXCEPT ![Head(arg[t].fields)] = 0]
  /\ arg' = [arg EXCEPT ![t].fields = Tail(@)]
  /\ pc' = [pc EXCEPT ![t] = IF Tail(arg[t].fields) = << >> THEN "maps" ELSE "store"]
  /\ UNCHANGED <<mu, loc, stats, overlap, calls, resets, cvars, nvars, hvars, wvars>>

\* the two maps are replaced; the deferred Unlock runs
ResetMaps(t) ==
  /\ pc[t] = "maps"
  /\ m' = [m EXCEPT !.changesApplied = EmptyMap, !.errorsByType = EmptyMap]
  /\ mu' = [mu EXCEPT !.w = 0]
  /\ arg' = [arg EXCEPT ![t] = NoArgs]
  /\ pc' = [pc EXCEPT ![t] = "idle"]
  /\ UNCHANGED <<loc, stats, overlap, calls, resets, cvars, nvars, hvars, wvars>>

----
RecordNext ==
  \E t \in Threads :
    \/ StartRecordConversion(t)
    \/ StartRecordError(t)
    \/ StartRecordChange(t)
    \/ StartGetStats(t)
    \/ AtomicAddStep(t)
    \/ RecordErrorLock(t)
    \/ RecordErrorInc(t)
    \/ RecordChangeInc(t)
    \/ GetStatsLoadTotal(t)
    \/ GetStatsLoadAvg(t)
    \/ GetStatsCopyMaps(t)
    \/ GetStatsLoadField(t)
    \/ GetStatsReturn(t)

\* the same, and Reset calls
ResetNext ==
  \/ RecordNext
  \/ \E t \in Threads :
       \/ StartReset(t)
       \/ ResetStore(t)
       \/ ResetMaps(t)

----
(***************************************************************************)
(* One call of Convert or ConvertWithContext. Convert runs to its end in   *)
(* one step; ConvertWithContext is a step per phase, and the signal may    *)
(* become done between any two of them.                                    *)
(***************************************************************************)
\* no middleware
InitNoServer ==
  /\ config = [Converter |-> "nil", Options |-> [StrictMode |-> FALSE, AutoFix |-> FALSE],
               EnableCache |-> FALSE, EnableMetrics |-> FALSE, SkipPaths |-> << >>,
               OnlyExtensions |-> << >>]
  /\ cache = << >>
  /\ pending = EmptyMap
  /\ last = << >>
  /\ good = {}
  /\ served = 0

\* no tree: the Normalizer and the Serializer are used by the call alone
InitNoTree ==
  /\ tnode = DocumentNode(<< >>)
  /\ tchanges = << >>
  /\ fixes = 0
  /\ after = << >>
  /\ shown = << >>
  /\ checked = << >>
  /\ sunk = << >>
  \* nor a snapshot held by a caller
  /\ heap = << >>
  /\ refs = [changesApplied |-> 0, errorsByType |-> 0]
  /\ snap = << >>
  /\ given = 0
  /\ InitNoServer

\* the call in progress, with the collector's state
Cur ==
  [result |-> cv.result, doc |-> cv.doc, m |-> m, notes |-> cv.notes, ran |-> cv.ran,
   polls |-> cv.polls, outcome |-> cv.outcome, ret |-> cv.ret]

WithoutMetrics(w) ==
  [result |-> w.result, doc |-> w.doc, notes |-> w.notes, ran |-> w.ran,
   polls |-> w.polls, outcome |-> w.outcome, ret |-> w.ret]

\* the call goes on as w, to the phase next unless it has ended
Becomes(w, next) ==
  /\ cv' = WithoutMetrics(w)
  /\ m' = w.m
  /\ cpc' = IF Running(w) THEN next ELSE "done"

Entries == {"Convert", "ConvertWithContext"}

InitCall ==
  /\ call \in Entries
  /\ src \in SourcesUpTo(IF call = "Convert" THEN MaxFrags ELSE MaxCtxFrags)
  /\ input = TextOf(src)
  /\ opts \in OptionSets
  /\ collector \in Collectors
  /\ ctx \in (IF call = "Convert" THEN {"live"} ELSE CtxStates)
  /\ ctxAt = (IF ctx = "live" THEN "never" ELSE "before")
  /\ cpc = "call"
  /\ cv = WithoutMetrics(NewCall(input, NewMetrics))

\* no converter call: the collector is used by the threads alone
InitNoCall ==
  /\ call = "none"
  /\ src = << >>
  /\ input = << >>
  /\ opts = [StrictMode |-> FALSE, AutoFix |-> FALSE]
  /\ collector = "DefaultMetrics"
  /\ ctx = "live"
  /\ ctxAt = "never"
  /\ cpc = "done"
  /\ cv = WithoutMetrics(NewCall(<< >>, NewMetrics))

Convert ==
  /\ call = "Convert" /\ cpc = "call"
  /\ \E parsed \in ParseOutcomes(src) :
       Becomes(ConvertCall(Cur, input, opts, collector, parsed), "done")
  /\ UNCHANGED <<call, src, input, opts, collector, ctx, ctxAt, tvars, nvars, hvars, wvars>>

\* the poll on entry
CwcPollEntry ==
  /\ call = "ConvertWithContext" /\ cpc = "call"
  /\ Becomes(PollPhase(Cur, collector, ctx, "entry", "context canceled"), "parse")
  /\ UNCHANGED <<call, src, input, opts, collector, ctx, ctxAt, tvars, nvars, hvars, wvars>>

CwcParse ==
  /\ cpc = "parse"
  /\ \E parsed \in ParseOutcomes(src) :
       Becomes(ParsePhase(Cur, opts, collector, parsed), "afterParse")
  /\ UNCHANGED <<call, src, input, opts, collector, ctx, ctxAt, tvars, nvars, hvars, wvars>>

CwcPollAfterParse ==
  /\ cpc = "afterParse"
  /\ Becomes(PollPhase(Cur, collector, ctx, "afterParse",
                       "context canceled after parsing"), "fixOrValidate")
  /\ UNCHANGED <<call, src, input, opts, collector, ctx, ctxAt, tvars, nvars, hvars, wvars>>

CwcFixOrValidate ==
  /\ cpc = "fixOrValidate"
  /\ Becomes(FixOrValidatePhase(Cur, opts, collector, ctx), "afterValidate")
  /\ UNCHANGED <<call, src, input, opts, collector, ctx, ctxAt, tvars, nvars, hvars, wvars>>

\* (a variant that goes on to serialization without the poll)
CwcNoPollAfterValidate ==
  /\ cpc = "afterValidate"
  /\ Becomes(Cur, "serialize")
  /\ UNCHANGED <<call, src, input, opts, collector, ctx, ctxAt, tvars, nvars, hvars, wvars>>

CwcPollAfterValidate ==
  /\ cpc = "afterValidate"
  /\ Becomes(PollPhase(Cur, collector, ctx, "afterValidate",
                       "context canceled after validation"), "serialize")
  /\ UNCHANGED <<call, src, input, opts, collector, ctx, ctxAt, tvars, nvars, hvars, wvars>>

\* serialization, the metrics and the return
CwcSerialize ==
  /\ cpc = "serialize"
  /\ \E d \in Durations :
       Becomes(FinishWithContext(RenderPhase(Cur), collector, d), "done")
  /\ UNCHANGED <<call, src, input, opts, collector, ctx, ctxAt, tvars, nvars, hvars, wvars>>

\* the signal becomes done while the call runs: cancel() is called, or the
\* deadline passes
SignalDone ==
  /\ call \in {"ConvertWithContext", "ValidateWithContext"} /\ cpc # "done"
  /\ ctx = "live"
  /\ ctx' \in {"canceled", "expired"}
  /\ ctxAt' = cpc
  /\ UNCHANGED <<m, call, src, input, opts, collector, cpc, cv, tvars, nvars, hvars, wvars>>

CallNext ==
  \/ Convert
  \/ CwcPollEntry
  \/ CwcParse
  \/ CwcPollAfterParse
  \/ CwcFixOrValidate
  \/ CwcPollAfterValidate
  \/ CwcSerialize
  \/ SignalDone

(***************************************************************************)
(* The Normalizer and the Serializer on a tree: fixNode is run on the tree *)
(* up to MaxFixes times, and renderXHTML serializes it as it then is. The  *)
(* trees are a document with one element, of up to MaxKids children; tags  *)
(* and attribute names in lower, upper and mixed case, void elements with  *)
(* and without children, text and comments.                                *)
(***************************************************************************)
MaxKids == 2

MaxFixes == 2

TreeNames == { <<"p">>, <<"b", "r">>, <<"D", "I", "V">>, <<"I", "m", "g">> }

TreeAttrs ==
  { << >>,
    <<Attribute(<<"I", "D">>, <<"a", "\"">>)>>,
    <<Attribute(<<"s", "r", "c">>, <<"x", "/">>),
      Attribute(<<"I", "D">>, <<"a", "\"">>),
      Attribute(<<"A", "L", "T">>, <<"Y">>)>> }

TreeLeaves ==
  {TextNode(<<"a", "<">>), CommentNode(<<"c">>)}
  \cup {ElementNode(<<"b", "r">>, a, << >>) :
          a \in {<< >>, <<Attribute(<<"I", "D">>, <<"a", "\"">>)>>}}
  \cup {ElementNode(<<"D", "I", "V">>, << >>, << >>),
        ElementNode(<<"E", "m">>, <<Attribute(<<"I", "D">>, <<"a", "\"">>)>>, << >>)}

Trees ==
  {DocumentNode(<<ElementNode(n, a, kids)>>) :
     n \in TreeNames, a \in TreeAttrs,
     kids \in UNION {[1 .. k -> TreeLeaves] : k \in 0 .. MaxKids}}

InitTree ==
  /\ m = NewMetrics /\ InitThreads /\ InitNoCall
  /\ tnode \in Trees
  /\ tchanges = << >>
  /\ fixes = 0
  /\ after = << >>
  /\ shown = [k \in 1 .. MaxFixes + 1 |-> None]
  /\ checked = << >>
  /\ sunk = << >>
  /\ heap = << >>
  /\ refs = [changesApplied |-> 0, errorsByType |-> 0]
  /\ snap = << >>
  /\ given = 0
  /\ InitNoServer

\* c.fixNode(n, result, opts)
FixTree ==
  /\ fixes < MaxFixes
  /\ LET fixed == fixNode(tnode, tchanges) IN
       /\ tnode' = fixed.node
       /\ tchanges' = fixed.changes
       /\ after' = Append(after, [tree |-> fixed.node, changes |-> Len(fixed.changes)])
  /\ fixes' = fixes + 1
  /\ UNCHANGED <<m, tvars, cvars, shown, checked, sunk, hvars, wvars>>

\* c.renderXHTML(n, &buf, opts)
RenderTree ==
  /\ fixes + 1 \in DOMAIN shown
  /\ shown[fixes + 1] = None
  /\ shown' = [shown EXCEPT ![fixes + 1] = Some(renderXHTML(tnode))]
  /\ UNCHANGED <<m, tvars, cvars, tnode, tchanges, fixes, after, checked, sunk, hvars, wvars>>

TreeNext == FixTree \/ RenderTree

\* c.validateNode(n, result)
ValidateTree ==
  /\ checked = << >>
  /\ checked' = <<validateNode(tnode)>>
  /\ UNCHANGED <<m, tvars, cvars, tnode, tchanges, fixes, after, shown, sunk, hvars, wvars>>

\* var buf bytes.Buffer; c.renderXHTML(n, &buf, opts)
RenderToSink ==
  /\ sunk = << >>
  /\ sunk' = <<renderXHTMLTo(tnode, NewBuffer)>>
  /\ UNCHANGED <<m, tvars, cvars, tnode, tchanges, fixes, after, shown, checked, hvars, wvars>>

CheckNext == ValidateTree \/ RenderToSink

\* c.validateNode(n, result) on a tree fixNode has run on: what it returned,
\* and the tree it was given
ValidateFixed ==
  /\ fixes > 0
  /\ checked = << >>
  /\ checked' = <<validateNode(tnode), tnode>>
  /\ UNCHANGED <<m, tvars, cvars, tnode, tchanges, fixes, after, shown, sunk, hvars, wvars>>

RepairNext == FixTree \/ ValidateFixed

(***************************************************************************)
(* One call of Validate or of ValidateWithContext; the latter is a step    *)
(* per phase, and the signal may become done between any two of them.      *)
(***************************************************************************)
InitValidate ==
  /\ m = NewMetrics /\ InitThreads /\ InitNoTree
  /\ call \in {"Validate", "ValidateWithContext"}
  /\ src \in SourcesUpTo(MaxFrags)
  /\ input = TextOf(src)
  /\ opts = [StrictMode |-> FALSE, AutoFix |-> FALSE]
  /\ collector \in {"NoOpMetrics", "DefaultMetrics"}
  /\ ctx \in (IF call = "Validate" THEN {"live"} ELSE CtxStates)
  /\ ctxAt = (IF ctx = "live" THEN "never" ELSE "before")
  /\ cpc = "call"
  /\ cv = WithoutMetrics(NewCall(input, NewMetrics))

Validate ==
  /\ call = "Validate" /\ cpc = "call"
  /\ \E parsed \in ParseOutcomes(src) :
       Becomes(ValidateCall(Cur, input, parsed), "done")
  /\ UNCHANGED <<call, src, input, opts, collector, ctx, ctxAt, tvars, nvars, hvars, wvars>>

\* the poll on entry
VwcPollEntry ==
  /\ call = "ValidateWithContext" /\ cpc = "call"
  /\ Becomes(ValidatePoll(Cur, ctx, "entry", "context canceled"), "vparse")
  /\ UNCHANGED <<call, src, input, opts, collector, ctx, ctxAt, tvars, nvars, hvars, wvars>>

VwcParse ==
  /\ cpc = "vparse"
  /\ \E parsed \in ParseOutcomes(src) :
       Becomes(ValidateParsePhase(Cur, parsed), "vvalidate")
  /\ UNCHANGED <<call, src, input, opts, collector, ctx, ctxAt, tvars, nvars, hvars, wvars>>

\* validateNodeWithContext, and the return
VwcValidate ==
  /\ cpc = "vvalidate"
  /\ Becomes(validateNodeWithContext(Cur, ctx), "done")
  /\ UNCHANGED <<call, src, input, opts, collector, ctx, ctxAt, tvars, nvars, hvars, wvars>>

ValidateNext ==
  \/ Validate
  \/ VwcPollEntry
  \/ VwcParse
  \/ VwcValidate
  \/ SignalDone

(***************************************************************************)
(* A collector used by one caller, one call after the other: the recording *)
(* operations, Reset, GetStats, conversions of a converter that holds the  *)
(* collector, and writes by the caller to the maps of the snapshot it      *)
(* holds. A Go map is a reference: heap has the contents of every map      *)
(* allocated, refs the two references the DefaultMetrics holds, and m is   *)
(* the DefaultMetrics with the contents of the maps its fields refer to.   *)
(***************************************************************************)
\* the longest sequence of calls
MaxStatOps == 4

\* time.Duration values given to RecordConversion
StatDurations == {3, 4}

\* the documents a converter holding the collector is given
StatSources == { <<2>>, <<11>> }

\* (a variant: New() makes a converter with a DefaultMetrics)
NewCollectorDefault == "DefaultMetrics"

\* New(): metrics: &NoOpMetrics{}
NewCollector == "NoOpMetrics"

\* NoOpMetrics.GetStats: ConversionStats{ChangesApplied: make(...), ErrorsByType: make(...)}
NoOpStats ==
  [ TotalConversions      |-> 0,
    SuccessfulConversions |-> 0,
    FailedConversions     |-> 0,
    AverageDuration       |-> 0,
    TotalBytesProcessed   |-> 0,
    TotalBytesOutput      |-> 0,
    ChangesApplied        |-> EmptyMap,
    ErrorsByType          |-> EmptyMap ]

\* Metrics.GetStats, by the implementation behind the interface
MetricsGetStats(col, mm) == IF col = "DefaultMetrics" THEN GetStatsCall(mm) ELSE NoOpStats

\* the DefaultMetrics with the contents of the maps its fields refer to
Loaded(mm, h, r) ==
  [mm EXCEPT !.changesApplied = h[r.changesApplied],
             !.errorsByType = h[r.errorsByType]]

\* the heap once a method has left the DefaultMetrics as mm: it wrote to
\* the maps its fields refer to
Stored(h, r, mm) ==
  [h EXCEPT ![r.changesApplied] = mm.changesApplied,
            ![r.errorsByType] = mm.errorsByType]

\* make(map[...]int64), twice: the heap and the two new references
MakeMaps(h, changes, errors) ==
  [heap |-> h \o <<changes, errors>>,
   changesApplied |-> Len(h) + 1, errorsByType |-> Len(h) + 2]

\* (a variant: GetStats returns the collector's own maps)
SnapshotMapsLive(h, r, st) ==
  [heap |-> h, changesApplied |-> r.changesApplied, errorsByType |-> r.errorsByType]

\* DefaultMetrics.GetStats: the maps of the value returned are new maps,
\* filled by the two copy loops
SnapshotMaps(h, r, st) == MakeMaps(h, st.ChangesApplied, st.ErrorsByType)

\* the calls Convert makes on its collector (RecordError and RecordChange;
\* it never calls RecordConversion), for each document, Options and outcome
\* of the parser: they do not depend on the state of the collector
ConversionNotes ==
  UNION { { ConvertCall(NewCall(TextOf(doc), NewMetrics), TextOf(doc), o,
                        "DefaultMetrics", parsed).notes :
              o \in OptionSets, parsed \in ParseOutcomes(doc) } :
          doc \in StatSources }

\* the DefaultMetrics after the calls noted have been made on it
RECURSIVE Notified(_, _)
Notified(mm, notes) ==
  IF notes = << >> THEN mm
  ELSE Notified(IF Head(notes)[1] = "RecordError"
                THEN RecordErrorCall(mm, Head(notes)[2])
                ELSE RecordChangeCall(mm, Head(notes)[2]),
                Tail(notes))

\* the calls made on the collector, counted per operation
RECURSIVE Counted(_, _)
Counted(c, notes) ==
  IF notes = << >> THEN c
  ELSE Counted(
         IF Head(notes)[1] = "RecordError"
         THEN [c EXCEPT !.err = MapInc(@, Head(notes)[2])]
         ELSE [c EXCEPT !.chg = MapInc(@, Head(notes)[2])],
         Tail(notes))

InitStats ==
  /\ InitThreads
  /\ call = "none" /\ src = << >> /\ input = << >>
  /\ opts = [StrictMode |-> FALSE, AutoFix |-> FALSE]
  /\ ctx = "live" /\ ctxAt = "never" /\ cpc = "done"
  /\ cv = WithoutMetrics(NewCall(<< >>, NewMetrics))
  /\ tnode = DocumentNode(<< >>) /\ tchanges = << >> /\ fixes = 0
  /\ after = << >> /\ shown = << >> /\ checked = << >> /\ sunk = << >>
  \* New() or NewWithMetrics(NewMetrics())
  /\ collector \in {NewCollector, "DefaultMetrics"}
  /\ m = NewMetrics
  /\ LET made == MakeMaps(<< >>, EmptyMap, EmptyMap) IN
       /\ heap = (IF collector = "DefaultMetrics" THEN made.heap ELSE << >>)
       /\ refs = (IF collector = "DefaultMetrics"
                  THEN [changesApplied |-> made.changesApplied,
                        errorsByType |-> made.errorsByType]
                  ELSE [changesApplied |-> 0, errorsByType |-> 0])
  /\ snap = << >>
  /\ given = 0
  /\ InitNoServer

MayCall == calls.started < MaxStatOps

\* a method of the collector has run: DefaultMetrics is left as mm
Left(mm) ==
  /\ m' = (IF collector = "DefaultMetrics" THEN mm ELSE m)
  /\ heap' = (IF collector = "DefaultMetrics" THEN Stored(heap, refs, mm) ELSE heap)
  /\ refs' = refs

StatRecordConversion ==
  /\ MayCall
  /\ \E d \in StatDurations, i \in InputSizes, o \in OutputSizes :
       /\ Left(RecordConversionCall(m, d, i, o))
       /\ given' = given + d
  /\ calls' = [calls EXCEPT !.started = @ + 1, !.conv = @ + 1]
  /\ UNCHANGED <<mu, pc, arg, loc, stats, overlap, resets, cvars, nvars, wvars, snap>>

StatRecordError ==
  /\ MayCall
  /\ \E e \in RecordedErrors :
       /\ Left(RecordErrorCall(m, e))
       /\ calls' = [calls EXCEPT !.started = @ + 1, !.err = MapInc(@, e)]
  /\ UNCHANGED <<mu, pc, arg, loc, stats, overlap, resets, cvars, nvars, wvars, snap, given>>

StatRecordChange ==
  /\ MayCall
  /\ \E c \in RecordedChanges :
       /\ Left(RecordChangeCall(m, c))
       /\ calls' = [calls EXCEPT !.started = @ + 1, !.chg = MapInc(@, c)]
  /\ UNCHANGED <<mu, pc, arg, loc, stats, overlap, resets, cvars, nvars, wvars, snap, given>>

\* Reset: the counters are stored 0 and the two fields get new maps
StatReset ==
  /\ MayCall
  /\ IF collector = "DefaultMetrics"
     THEN LET mm == ResetCall(m)
              made == MakeMaps(heap, mm.changesApplied, mm.errorsByType)
          IN /\ m' = mm
             /\ heap' = made.heap
             /\ refs' = [changesApplied |-> made.changesApplied,
                         errorsByType |-> made.errorsByType]
     ELSE UNCHANGED <<m, heap, refs>>
  /\ calls' = [calls EXCEPT !.started = @ + 1, !.conv = 0, !.err = EmptyMap,
                            !.chg = EmptyMap]
  /\ given' = 0
  /\ resets' = resets + 1
  /\ UNCHANGED <<mu, pc, arg, loc, stats, overlap, cvars, nvars, wvars, snap>>

\* GetStats: the caller holds the value returned
StatGetStats ==
  /\ MayCall
  /\ LET st == MetricsGetStats(collector, m)
         maps == IF collector = "DefaultMetrics" THEN SnapshotMaps(heap, refs, st)
                 ELSE MakeMaps(heap, st.ChangesApplied, st.ErrorsByType)
     IN /\ heap' = maps.heap
        /\ snap' = << [s |-> st, changesApplied |-> maps.changesApplied,
                       errorsByType |-> maps.errorsByType,
                       at |-> calls.started + 1, writes |-> 0] >>
  /\ calls' = [calls EXCEPT !.started = @ + 1]
  /\ UNCHANGED <<m, mu, pc, arg, loc, stats, overlap, resets, cvars, nvars, wvars, refs, given>>

\* the caller writes to a map of the snapshot it holds:
\* stats.ChangesApplied[c]++ or stats.ErrorsByType[e]++
StatWriteSnapshot ==
  /\ MayCall
  /\ snap # << >>
  /\ \/ \E c \in RecordedChanges :
          heap' = [heap EXCEPT ![snap[1].changesApplied] = MapInc(@, c)]
     \/ \E e \in RecordedErrors :
          heap' = [heap EXCEPT ![snap[1].errorsByType] = MapInc(@, e)]
  /\ m' = (IF collector = "DefaultMetrics" THEN Loaded(m, heap', refs) ELSE m)
  /\ snap' = <<[snap[1] EXCEPT !.writes = @ + 1]>>
  /\ calls' = [calls EXCEPT !.started = @ + 1]
  /\ UNCHANGED <<mu, pc, arg, loc, stats, overlap, resets, cvars, nvars, wvars, refs, given>>

\* a converter that holds the collector converts a document
StatConvert ==
  /\ MayCall
  /\ \E notes \in ConversionNotes :
       /\ Left(Notified(m, notes))
       /\ calls' = [Counted(calls, notes) EXCEPT !.started = @ + 1]
  /\ call' = "Convert"
  /\ UNCHANGED <<mu, pc, arg, loc, stats, overlap, resets, nvars, wvars, snap, given>>
  /\ UNCHANGED <<src, input, opts, collector, ctx, ctxAt, cpc, cv>>

StatNext ==
  \/ StatRecordConversion
  \/ StatRecordError
  \/ StatRecordChange
  \/ StatReset
  \/ StatGetStats
  \/ StatWriteSnapshot
  \/ StatConvert

(***************************************************************************)
(* middleware/http.go: XHTMLMiddleware. Every request is served by a       *)
(* goroutine of its own, which runs the handler statement by statement:    *)
(* the look-up in the cache, the next handler, the conversion (phase by    *)
(* phase, when the converter is the middleware's own), the store into the  *)
(* cache and the reply are steps between which the other handlers run;     *)
(* so are the atomic additions and the locked map increments that the      *)
(* conversion makes on the collector the handlers share (EnableMetrics).   *)
(* The Config has no Converter (converter.New() or NewWithMetrics is used) *)
(* or one of the caller's, which may return anything a Converter may.      *)
(***************************************************************************)
\* the requests served
MaxRequests == 2

\* http.StatusOK
StatusOK == 200

TextHtml == <<"t", "e", "x", "t", "/", "h", "t", "m", "l">>

XhtmlType == <<"a", "p", "p", "l", "i", "c", "a", "t", "i", "o", "n", "/", "x", "h", "t", "m", "l", "+", "x", "m", "l", ";", " ", "c", "h", "a", "r", "s", "e", "t", "=", "u", "t", "f", "-", "8">>

\* the paths requested, and the responses of the next handler
MwPaths == { <<"/", "a", ".", "h", "t", "m", "l">>,
             <<"/", "b", ".", "h", "t", "m">>,
             <<"/", "x", "/", "a", ".", "h", "t", "m", "l">>,
             <<"/", "a", ".", "c", "s", "s">> }

HtmlType == <<"t", "e", "x", "t", "/", "h", "t", "m", "l", ";", " ", "c", "h", "a", "r", "s", "e", "t", "=", "u", "t", "f", "-", "8">>

CssType == <<"t", "e", "x", "t", "/", "c", "s", "s">>

MwResponses == { [contentType |-> HtmlType, status |-> StatusOK, body |-> <<1>>],
                 [contentType |-> HtmlType, status |-> 404, body |-> <<2>>],
                 [contentType |-> CssType, status |-> StatusOK, body |-> <<1>>] }

\* strings.Contains
Contains(s, sub) ==
  \E i \in 0 .. Len(s) - Len(sub) : SubSeq(s, i + 1, i + Len(sub)) = sub

\* if len(config.OnlyExtensions) == 0 { config.OnlyExtensions = ... }
WithDefaults(cfg) ==
  IF Len(cfg.OnlyExtensions) = 0
  THEN [cfg EXCEPT !.OnlyExtensions = << <<".", "h", "t", "m", "l">>, <<".", "h", "t", "m">> >>]
  ELSE cfg

\* the collector of the converter made when config.Converter == nil:
\* converter.NewWithMetrics(converter.NewMetrics()), or converter.New()
MwCollector(cfg) == IF cfg.EnableMetrics THEN NewCollectorDefault ELSE NewCollector

shouldProcess(path, cfg) ==
  IF \E i \in 1 .. Len(cfg.SkipPaths) : HasPrefix(path, cfg.SkipPaths[i]) THEN FALSE
  ELSE \E i \in 1 .. Len(cfg.OnlyExtensions) : HasSuffix(path, cfg.OnlyExtensions[i])

\* what the client receives: next.ServeHTTP(w, r) directly, or copyHeaders,
\* w.WriteHeader(rw.statusCode) and w.Write(rw.buf.Bytes())
Forwarded(resp) ==
  [status |-> resp.status, body |-> TextOf(resp.body), contentType |-> resp.contentType,
   convertedBy |-> ""]

writeXHTML(body, status) ==
  [status |-> status, body |-> body, contentType |-> XhtmlType,
   convertedBy |-> "SHP-Middleware"]

\* DefaultConverter.ConvertWithContext: the phase at, run on the call w
\* while the signal is in state c, and the phase that follows it
CwcPhase(w, at, o, col, c, parsed, duration) ==
  CASE at = "call" ->
         [w |-> PollPhase(w, col, c, "entry", "context canceled"), next |-> "parse"]
    [] at = "parse" ->
         [w |-> ParsePhase(w, o, col, parsed), next |-> "afterParse"]
    [] at = "afterParse" ->
         [w |-> PollPhase(w, col, c, "afterParse", "context canceled after parsing"),
          next |-> "fixOrValidate"]
    [] at = "fixOrValidate" ->
         [w |-> FixOrValidatePhase(w, o, col, c), next |-> "afterValidate"]
    [] at = "afterValidate" ->
         [w |-> PollPhase(w, col, c, "afterValidate", "context canceled after validation"),
          next |-> "serialize"]
    [] at = "serialize" ->
         [w |-> FinishWithContext(RenderPhase(w), col, duration), next |-> "done"]

\* what a Converter of the caller's may return from ConvertWithContext
CustomOutcomes(body) ==
  { [ret |-> [result |-> None,
              err |-> Some(NewError(ErrConversionFailed, <<"failed">>, None))]],
    [ret |-> [result |-> Some([NewResult(TextOf(body)) EXCEPT
                                 !.Output = <<"<", "p", " ", "/", ">">>,
                                 !.Errors = <<PlainError("bad", << >>)>>]),
              err |-> None]],
    [ret |-> [result |-> Some([NewResult(TextOf(body)) EXCEPT
                                 !.Output = TextOf(body), !.Success = TRUE]),
              err |-> None]] }

\* (a variant that looks at the error alone)
ConversionFailedErrOnly(o) == o.ret.err # None

\* if err != nil || !result.Success
ConversionFailed(o) == o.ret.err # None \/ ~o.ret.result[1].Success

\* the Configs given to XHTMLMiddleware
MwConfigs ==
  [Converter : {"nil"}, Options : OptionSets, EnableCache : BOOLEAN,
   EnableMetrics : {FALSE}, SkipPaths : { <<<<"/", "x">>>> }, OnlyExtensions : { << >> }]
  \cup
  [Converter : {"nil"}, Options : OptionSets, EnableCache : {TRUE},
   EnableMetrics : {TRUE}, SkipPaths : { <<<<"/", "x">>>> }, OnlyExtensions : { << >> }]
  \cup
  [Converter : {"custom"}, Options : {[StrictMode |-> FALSE, AutoFix |-> FALSE]},
   EnableCache : BOOLEAN, EnableMetrics : {FALSE}, SkipPaths : { <<<<"/", "x">>>> },
   OnlyExtensions : { << >> }]

InitServer ==
  /\ config \in MwConfigs
  /\ cache = (IF config.EnableCache THEN Some(EmptyMap) ELSE None)
  /\ pending = EmptyMap
  /\ last = << >>
  /\ good = {}
  /\ served = 0

\* the handler of a request that has just come in
NewHandler(path, at) ==
  [pc |-> at, path |-> path, ctx |-> "live", how |-> "", cached |-> << >>,
   rw |-> None, cpc |-> "call", w |-> WithoutMetrics(NewCall(<< >>, NewMetrics)),
   todo |-> << >>]

\* the handler of request i returns, having written the reply (or, when it
\* panicked, none); how is what it did
Answered(i, how, reply) ==
  /\ last' = <<[id |-> i, path |-> pending[i].path, rw |-> pending[i].rw, how |-> how,
                reply |-> reply]>>
  /\ pending' = [k \in DOMAIN pending \ {i} |-> pending[k]]

\* a request comes in: if !shouldProcess(r.URL.Path, config); if cache != nil
MwArrive ==
  /\ served < MaxRequests
  /\ served' = served + 1
  /\ \E path \in MwPaths :
       pending' = MapSet(pending, served + 1,
                         NewHandler(path,
                                    IF ~shouldProcess(path, WithDefaults(config)) THEN "pass"
                                    ELSE IF cache # None THEN "get" ELSE "next"))
  /\ UNCHANGED <<m, tvars, cvars, nvars, hvars, config, cache, last, good>>

\* next.ServeHTTP(w, r); return
MwPass(i) ==
  /\ pending[i].pc = "pass"
  /\ \E resp \in MwResponses :
       /\ last' = <<[id |-> i, path |-> pending[i].path, rw |-> Some(resp), how |-> "passed",
                     reply |-> Some(Forwarded(resp))]>>
       /\ pending' = [k \in DOMAIN pending \ {i} |-> pending[k]]
  /\ UNCHANGED <<m, tvars, cvars, nvars, hvars, config, cache, good, served>>

\* cached, ok := cache.Get(r.URL.Path), under the cache's lock
MwCacheGet(i) ==
  /\ pending[i].pc = "get"
  /\ pending' = IF pending[i].path \in DOMAIN cache[1]
                THEN [pending EXCEPT ![i].pc = "hit", ![i].cached = cache[1][pending[i].path]]
                ELSE [pending EXCEPT ![i].pc = "next"]
  /\ UNCHANGED <<m, tvars, cvars, nvars, hvars, config, cache, last, good, served>>

\* writeXHTML(w, cached, http.StatusOK); return
MwHit(i) ==
  /\ pending[i].pc = "hit"
  /\ Answered(i, "hit", Some(writeXHTML(pending[i].cached, StatusOK)))
  /\ UNCHANGED <<m, tvars, cvars, nvars, hvars, config, cache, good, served>>

\* next.ServeHTTP(rw, r), and the test of the Content-Type it set
MwNextHandler(i) ==
  /\ pending[i].pc = "next"
  /\ \E resp \in MwResponses :
       pending' = [pending EXCEPT
                     ![i].rw = Some(resp),
                     ![i].w = WithoutMetrics(NewCall(TextOf(resp.body), NewMetrics)),
                     ![i].pc = IF Contains(resp.contentType, TextHtml) THEN "convert"
                               ELSE "forward",
                     ![i].how = IF Contains(resp.contentType, TextHtml) THEN "" ELSE "notHtml"]
  /\ UNCHANGED <<m, tvars, cvars, nvars, hvars, config, cache, last, good, served>>

\* copyHeaders(w, rw); w.WriteHeader(rw.statusCode); w.Write(rw.buf.Bytes()); return
MwForward(i) ==
  /\ pending[i].pc = "forward"
  /\ Answered(i, pending[i].how, Some(Forwarded(pending[i].rw[1])))
  /\ UNCHANGED <<m, tvars, cvars, nvars, hvars, config, cache, good, served>>

\* the request's context is canceled while its conversion runs (the client
\* has gone)
MwCancel(i) ==
  /\ pending[i].pc = "convert" /\ Running(pending[i].w) /\ pending[i].ctx = "live"
  /\ pending' = [pending EXCEPT ![i].ctx = "canceled"]
  /\ UNCHANGED <<m, tvars, cvars, nvars, hvars, config, cache, last, good, served>>

\* the statements of one call on the DefaultMetrics, in program order:
\* RecordConversion is five atomic additions, RecordError two and then
\* Lock, errorsByType[code]++, Unlock, RecordChange Lock,
\* changesApplied[type]++, Unlock
StatementsOf(note, result) ==
  LET adds(list) == [k \in 1 .. Len(list) |-> <<"add", list[k][1], list[k][2]>>] IN
  CASE note[1] = "RecordConversion" ->
         adds(RecordConversionAdds(note[2], result.OriginalSize, result.FinalSize))
    [] note[1] = "RecordError" ->
         adds(RecordErrorAdds) \o << <<"lock">>, <<"inc", "errorsByType", note[2]>> >>
    [] note[1] = "RecordChange" ->
         << <<"lock">>, <<"inc", "changesApplied", note[2]>> >>

\* the statements of the calls a phase makes on the collector col
RECURSIVE CollectorStatements(_, _, _)
CollectorStatements(col, notes, result) ==
  IF col # "DefaultMetrics" \/ notes = << >> THEN << >>
  ELSE StatementsOf(Head(notes), result) \o CollectorStatements(col, Tail(notes), result)

\* config.Converter.ConvertWithContext(r.Context(), rw.buf.Bytes(),
\* config.Options) of the middleware's own converter: its next phase, up
\* to the calls it makes on the collector
MwConvert(i) ==
  /\ pending[i].pc = "convert" /\ config.Converter = "nil"
  /\ Running(pending[i].w) /\ pending[i].todo = << >>
  /\ \E parsed \in ParseOutcomes(pending[i].rw[1].body), d \in Durations :
       LET h == pending[i]
           cur == [result |-> h.w.result, doc |-> h.w.doc, m |-> m, notes |-> h.w.notes,
                   ran |-> h.w.ran, polls |-> h.w.polls, outcome |-> h.w.outcome,
                   ret |-> h.w.ret]
           st == CwcPhase(cur, h.cpc, config.Options, MwCollector(config), h.ctx, parsed, d)
           made == SubSeq(st.w.notes, Len(h.w.notes) + 1, Len(st.w.notes))
       IN pending' = [pending EXCEPT
                        ![i].w = WithoutMetrics(st.w),
                        ![i].cpc = IF Running(st.w) THEN st.next ELSE "done",
                        ![i].todo = CollectorStatements(MwCollector(config), made,
                                                        st.w.result)]
  /\ UNCHANGED <<m, tvars, cvars, nvars, hvars, config, cache, last, good, served>>

\* atomic.AddInt64(&m.<field>, delta) of RecordConversion or RecordError
MwAtomicAdd(i) ==
  /\ pending[i].todo # << >> /\ Head(pending[i].todo)[1] = "add"
  /\ m' = AtomicAdd(m, Head(pending[i].todo)[2], Head(pending[i].todo)[3])
  /\ pending' = [pending EXCEPT ![i].todo = Tail(@)]
  /\ UNCHANGED <<tvars, cvars, nvars, hvars, config, cache, last, good, served>>

\* m.mu.Lock() of RecordError or RecordChange
MwLock(i) ==
  /\ pending[i].todo # << >> /\ Head(pending[i].todo)[1] = "lock"
  /\ mu.w = 0 /\ mu.r = {}
  /\ mu' = [mu EXCEPT !.w = i]
  /\ pending' = [pending EXCEPT ![i].todo = Tail(@)]
  /\ UNCHANGED <<m, pc, arg, loc, stats, overlap, calls, resets, cvars, nvars, hvars,
                 config, cache, last, good, served>>

\* m.errorsByType[errorType]++ or m.changesApplied[changeType]++ ; m.mu.Unlock()
MwInc(i) ==
  /\ pending[i].todo # << >> /\ Head(pending[i].todo)[1] = "inc"
  /\ mu.w = i
  /\ m' = IF Head(pending[i].todo)[2] = "errorsByType"
          THEN ErrorsByTypeInc(m, Head(pending[i].todo)[3])
          ELSE ChangesAppliedInc(m, Head(pending[i].todo)[3])
  /\ mu' = [mu EXCEPT !.w = 0]
  /\ pending' = [pending EXCEPT ![i].todo = Tail(@)]
  /\ UNCHANGED <<pc, arg, loc, stats, overlap, calls, resets, cvars, nvars, hvars,
                 config, cache, last, good, served>>

\* the same call of a Converter of the caller's
MwConvertCustom(i) ==
  /\ pending[i].pc = "convert" /\ config.Converter = "custom"
  /\ Running(pending[i].w)
  /\ \E o \in CustomOutcomes(pending[i].rw[1].body) :
       pending' = [pending EXCEPT ![i].w = [@ EXCEPT !.outcome = "returned", !.ret = o.ret],
                                  ![i].cpc = "done"]
  /\ UNCHANGED <<m, tvars, cvars, nvars, hvars, config, cache, last, good, served>>

\* ConvertWithContext has ended for request i: a panic ends the handler;
\* if err != nil || !result.Success the original is to be forwarded; else
\* the Output is to be stored and sent
MwReturned(i) ==
  /\ pending[i].pc = "convert" /\ ~Running(pending[i].w) /\ pending[i].todo = << >>
  /\ LET w == pending[i].w IN
     IF w.outcome = "panicked"
     THEN /\ Answered(i, "panicked", None)
          /\ UNCHANGED good
     ELSE IF ConversionFailed([ret |-> w.ret])
     THEN /\ pending' = [pending EXCEPT ![i].pc = "forward", ![i].how = "failed"]
          /\ UNCHANGED <<last, good>>
     ELSE /\ pending' = [pending EXCEPT ![i].pc = IF cache # None THEN "set" ELSE "write"]
          /\ good' = good \cup
               (IF w.ret.err = None /\ w.ret.result[1].Success
                THEN {<<pending[i].path, w.ret.result[1].Output>>} ELSE {})
          /\ UNCHANGED last
  /\ UNCHANGED <<m, tvars, cvars, nvars, hvars, config, cache, served>>

\* cache.Set(r.URL.Path, result.Output), under the cache's lock
MwCacheSet(i) ==
  /\ pending[i].pc = "set"
  /\ cache' = Some(MapSet(cache[1], pending[i].path, pending[i].w.ret.result[1].Output))
  /\ pending' = [pending EXCEPT ![i].pc = "write"]
  /\ UNCHANGED <<m, tvars, cvars, nvars, hvars, config, last, good, served>>

\* writeXHTML(w, result.Output, rw.statusCode)
MwWrite(i) ==
  /\ pending[i].pc = "write"
  /\ Answered(i, "converted",
              Some(writeXHTML(pending[i].w.ret.result[1].Output, pending[i].rw[1].status)))
  /\ UNCHANGED <<m, tvars, cvars, nvars, hvars, config, cache, good, served>>

ServerNext ==
  \/ MwArrive
  \/ \E i \in DOMAIN pending : MwPass(i)
  \/ \E i \in DOMAIN pending : MwCacheGet(i)
  \/ \E i \in DOMAIN pending : MwHit(i)
  \/ \E i \in DOMAIN pending : MwNextHandler(i)
  \/ \E i \in DOMAIN pending : MwForward(i)
  \/ \E i \in DOMAIN pending : MwCancel(i)
  \/ \E i \in DOMAIN pending : MwConvert(i)
  \/ \E i \in DOMAIN pending : MwAtomicAdd(i)
  \/ \E i \in DOMAIN pending : MwLock(i)
  \/ \E i \in DOMAIN pending : MwInc(i)
  \/ \E i \in DOMAIN pending : MwConvertCustom(i)
  \/ \E i \in DOMAIN pending : MwReturned(i)
  \/ \E i \in DOMAIN pending : MwCacheSet(i)
  \/ \E i \in DOMAIN pending : MwWrite(i)

\* One call of the converter, on a fresh collector.
Init == m = NewMetrics /\ InitThreads /\ InitCall /\ InitNoTree

Spec == Init /\ [][CallNext]_vars

\* Concurrent recording calls and snapshots on one collector, no Reset.
InitRecord == m = NewMetrics /\ InitThreads /\ InitNoCall /\ InitNoTree

SpecRecord == InitRecord /\ [][RecordNext]_vars

\* Concurrent recording calls, snapshots and Reset calls on one collector.
SpecReset == InitRecord /\ [][ResetNext]_vars

\* One call of Validate.
SpecValidate == InitValidate /\ [][ValidateNext]_vars

\* The Normalizer and the Serializer on a tree.
SpecTree == InitTree /\ [][TreeNext]_vars

\* The Validator on a tree.
SpecCheck == InitTree /\ [][CheckNext]_vars

\* fixNode on a tree, and then validateNode on the tree it leaves.
SpecRepair == InitTree /\ [][RepairNext]_vars

\* A collector used by one caller.
SpecStats == InitStats /\ [][StatNext]_vars

\* Requests served by the middleware.
InitWeb ==
  /\ m = NewMetrics /\ InitThreads /\ InitNoCall
  /\ tnode = DocumentNode(<< >>) /\ tchanges = << >> /\ fixes = 0
  /\ after = << >> /\ shown = << >> /\ checked = << >> /\ sunk = << >>
  /\ heap = << >> /\ refs = [changesApplied |-> 0, errorsByType |-> 0]
  /\ snap = << >> /\ given = 0
  /\ InitServer

SpecServer == InitWeb /\ [][ServerNext]_vars

----
(***************************************************************************)
(* Properties of the metrics collector.                                    *)
(***************************************************************************)
SnapshotSums(s) ==
  s.TotalConversions = s.SuccessfulConversions + s.FailedConversions

AllReturned == \A t \in Threads : pc[t] = "idle"

\* C1 (as stated): every snapshot GetStats returns, also one taken while
\* RecordConversion or RecordError calls are in progress, has
\* TotalConversions = SuccessfulConversions + FailedConversions.
C1_EverySnapshotSums ==
  \A t \in Threads : stats[t] # << >> => SnapshotSums(stats[t][1].s)

\* C1 (amended): on a collector on which Reset has not been called, a
\* snapshot returned by a GetStats call during which no recording call was
\* in progress (none had started and not returned when it began, none took
\* a step before it returned) has
\* TotalConversions = SuccessfulConversions + FailedConversions. (With
\* Reset the sum can stay broken after every call has returned: C35.)
C1_QuietSnapshotSums ==
  resets = 0 =>
    \A t \in Threads :
      (stats[t] # << >> /\ stats[t][1].clean) => SnapshotSums(stats[t][1].s)

\* C1 witness: no Reset was called, and a quiet snapshot counts a success
\* and a failure.
C1_Witness ==
  /\ resets = 0
  /\ \E t \in Threads :
       /\ stats[t] # << >>
       /\ stats[t][1].clean
       /\ stats[t][1].s.SuccessfulConversions = 1
       /\ stats[t][1].s.FailedConversions = 1
       /\ stats[t][1].s.TotalConversions = 2

\* C3: once every RecordConversion, RecordError and RecordChange call issued
\* from the concurrent threads has returned, a snapshot shows exactly the
\* calls made: total = N+M, successful = N, failed = M, and the per-kind
\* counts of errors and changes.
C3_NoLostUpdate ==
  AllReturned =>
    LET s == GetStatsCall(m) IN
      /\ s.TotalConversions = calls.conv + MapSum(calls.err)
      /\ s.SuccessfulConversions = calls.conv
      /\ s.FailedConversions = MapSum(calls.err)
      /\ \A e \in ErrorCodes : MapGet(s.ErrorsByType, e) = MapGet(calls.err, e)
      /\ \A c \in ChangeTypes : MapGet(s.ChangesApplied, c) = MapGet(calls.chg, c)

\* C3 witness: recording calls that overlapped in time have all returned,
\* two of them RecordError calls of the same kind.
C3_Witness ==
  /\ AllReturned
  /\ calls.raced
  /\ \E e \in RecordedErrors : MapGet(calls.err, e) = 2
  /\ calls.conv + MapSum(calls.chg) >= 1

----
(***************************************************************************)
(* Properties of one call of the converter.                                *)
(***************************************************************************)
Ended == cpc = "done"

ReturnedResult == Ended /\ cv.ret.result # None

ReturnedError == Ended /\ cv.ret.err # None

\* the calls of the given method made on the collector
NotesOf(method) == SelectSeq(cv.notes, LAMBDA n : n[1] = method)

\* html.Parse was called and returned no tree
ParserFailed == cv.doc = None /\ \E i \in 1 .. Len(cv.ran) : cv.ran[i] = "parse"

\* a poll of the call found the signal done
ObservedDone == \E i \in 1 .. Len(cv.polls) : cv.polls[i].done

\* C2: a call on a converter with a collector tells the collector exactly
\* once: one RecordConversion and no RecordError when a Result is returned,
\* one RecordError and no RecordConversion when an error is returned, and
\* one RecordChange per Change of the returned Result.
C2_NotifiedExactlyOnce ==
  (Ended /\ collector # "nil") =>
    /\ ReturnedResult =>
         /\ Len(NotesOf("RecordConversion")) = 1
         /\ Len(NotesOf("RecordError")) = 0
         /\ Len(NotesOf("RecordChange")) = Len(cv.ret.result[1].Changes)
    /\ ReturnedError =>
         /\ Len(NotesOf("RecordError")) = 1
         /\ Len(NotesOf("RecordConversion")) = 0

\* C4: every call of Convert and of ConvertWithContext ends by returning
\* exactly one of a Result and an error, whatever the options, the parser's
\* outcome and the moment the signal becomes done.
C4_ExactlyOneOfResultOrError ==
  Ended =>
    /\ cv.outcome = "returned"
    /\ (cv.ret.result # None) # (cv.ret.err # None)

\* C5: when the signal is already done at the call of ConvertWithContext,
\* the call returns no Result and an error of kind ErrContextCanceled, it
\* performs no parsing, fixing or serialization, and the collector records
\* exactly one failure and no success.
C5_DoneOnEntry ==
  (call = "ConvertWithContext" /\ ctxAt = "before") =>
    /\ cpc \in {"call", "done"}
    /\ cv.ran = << >>
    /\ Ended =>
         /\ cv.outcome = "returned"
         /\ cv.ret.result = None
         /\ cv.ret.err # None
         /\ cv.ret.err[1].Code = ErrContextCanceled
         /\ collector # "nil" => cv.notes = << <<"RecordError", ErrContextCanceled>> >>
         /\ m.failedConversions = (IF collector = "DefaultMetrics" THEN 1 ELSE 0)
         /\ m.successfulConversions = 0
         /\ m.totalConversions = m.failedConversions

\* C5 witness: a call with a document that needs fixing, made with the
\* signal done, has returned and the DefaultMetrics collector has counted it.
C5_Witness ==
  /\ call = "ConvertWithContext" /\ ctxAt = "before" /\ Ended
  /\ src # << >> /\ opts.AutoFix
  /\ collector = "DefaultMetrics"
  /\ m.failedConversions = 1

\* C6 (as stated): the last poll follows serialization, so that a signal
\* which became done at any moment before the call ended, the serialization
\* included, makes the call return no Result.
C6_DoneBeforeEndGivesNoResult ==
  (call = "ConvertWithContext" /\ Ended /\ ctx # "live") => cv.ret.result = None

\* the places of the polls of a call, in order
PollPlaces == [i \in 1 .. Len(cv.polls) |-> cv.polls[i].at]

IsPrefix(p, q) == Len(p) <= Len(q) /\ SubSeq(q, 1, Len(p)) = p

\* C6 (amended): the polls are, in order, on entry, after parsing, at the
\* start of the fix or validate step and after that step, and there is none
\* after serialization: a Result is returned only after all four polls found
\* the signal live, a signal that became done before the poll that follows
\* the fix or validate step leaves no Result, and one that becomes done
\* after it does not stop the call.
C6_PollsBeforeSerialization ==
  call = "ConvertWithContext" =>
    /\ \E step \in {"fix", "validate"} :
         IsPrefix(PollPlaces, <<"entry", "afterParse", step, "afterValidate">>)
    /\ ReturnedResult =>
         /\ Len(cv.polls) = 4
         /\ ~ObservedDone
         /\ ctxAt \in {"never", "serialize"}
    /\ (Ended /\ ctxAt \notin {"never", "serialize"}) => cv.ret.result = None
    /\ (Ended /\ ctxAt = "serialize" /\ cv.outcome = "returned") =>
         (cv.ret.result # None /\ cv.ret.err = None)

\* C6 witness: the signal became done after the fourth poll, and the call
\* serialized the document and returned the Result.
C6_Witness ==
  /\ call = "ConvertWithContext" /\ ReturnedResult
  /\ ctxAt = "serialize" /\ ctx = "canceled"
  /\ Len(cv.polls) = 4
  /\ src # << >>

\* C7: whenever a poll of ConvertWithContext finds the signal done, the call
\* returns no Result and an error of kind ErrContextCanceled, for every
\* combination of the options.
C7_ObservedCancelIsCanceled ==
  (call = "ConvertWithContext" /\ Ended /\ ObservedDone) =>
    /\ cv.ret.result = None
    /\ cv.ret.err # None
    /\ cv.ret.err[1].Code = ErrContextCanceled

\* C8: when ConvertWithContext aborts because of a cancellation (the parser
\* having returned a tree), exactly one RecordError call was made for the
\* conversion, and its kind is the kind of the returned error,
\* ErrContextCanceled.
C8_RecordedFailureMatches ==
  (/\ call = "ConvertWithContext" /\ Ended /\ ObservedDone /\ collector # "nil"
   /\ ~ParserFailed) =>
    /\ cv.ret.err # None
    /\ Len(NotesOf("RecordError")) = 1
    /\ NotesOf("RecordError")[1][2] = cv.ret.err[1].Code
    /\ cv.ret.err[1].Code = ErrContextCanceled

\* C9 (as stated): the kind of the error tells how the signal became done:
\* ErrTimeout when its deadline expired, ErrContextCanceled when it was
\* cancelled.
C9_KindTellsCause ==
  (call = "ConvertWithContext" /\ Ended /\ ObservedDone) =>
    /\ cv.ret.err # None
    /\ ctx = "expired" => cv.ret.err[1].Code = ErrTimeout
    /\ ctx = "canceled" => cv.ret.err[1].Code = ErrContextCanceled

\* C9 (amended): ConvertWithContext never returns an error of kind
\* ErrTimeout; a signal that is done on entry gives kind ErrContextCanceled
\* whether its deadline expired or it was cancelled, and only the cause of
\* the error (ctx.Err()) tells the two apart.
C9_CanceledForBoth ==
  (call = "ConvertWithContext" /\ ReturnedError) =>
    /\ cv.ret.err[1].Code # ErrTimeout
    /\ ctxAt = "before" =>
         /\ cv.ret.err[1].Code = ErrContextCanceled
         /\ cv.ret.err[1].Cause = Some(CtxErr(ctx))
         /\ CtxErr("expired") # CtxErr("canceled")

\* C9 witness: a call made after the deadline expired has returned its error.
C9_Witness ==
  /\ call = "ConvertWithContext" /\ ReturnedError
  /\ ctxAt = "before" /\ ctx = "expired"
  /\ cv.ret.err[1].Cause = Some(PlainError("context deadline exceeded", << >>))

(***************************************************************************)
(* The defects strict mode is to reject, read off the text of the input:   *)
(* a tag runs from a "<" to the next ">", its name is the run of word      *)
(* characters after the "<" (or "</"), and an attribute is a word followed *)
(* by "=" outside a quoted value.                                          *)
(***************************************************************************)
TagEnd(s, i) == RunEnd(s, i, {">"}, TRUE)

TagsOf(s) == {i \in 1 .. Len(s) : s[i] = "<" /\ TagEnd(s, i) <= Len(s)}

TagNameStart(s, i) == IF s[i + 1] = "/" THEN i + 2 ELSE i + 1

TagName(s, i) ==
  Slice(s, TagNameStart(s, i), RunEnd(s, TagNameStart(s, i), WordChars, FALSE) - 1)

HasUpper(name) == \E k \in 1 .. Len(name) : name[k] \in Upper

\* the "=" of the tag at i that are not inside a quoted value
AttrEquals(s, i) ==
  {k \in i .. TagEnd(s, i) :
     /\ s[k] = "="
     /\ Cardinality({j \in i .. k - 1 : s[j] = "\""}) % 2 = 0}

RECURSIVE WordStart(_, _)
WordStart(s, k) == IF k >= 1 /\ s[k] \in WordChars THEN WordStart(s, k - 1) ELSE k + 1

AttrName(s, k) == Slice(s, WordStart(s, k - 1), k - 1)

UnquotedValue(s, k) == s[k + 1] \notin {"\"", "'"}

VoidNotSelfClosing(s, i) ==
  /\ s[i + 1] # "/"
  /\ ToLower(TagName(s, i)) \in VoidElements
  /\ s[TagEnd(s, i) - 1] # "/"

HasDefect(s) ==
  \E i \in TagsOf(s) :
    \/ HasUpper(TagName(s, i))
    \/ VoidNotSelfClosing(s, i)
    \/ \E k \in AttrEquals(s, i) : HasUpper(AttrName(s, k)) \/ UnquotedValue(s, k)

\* C10: Convert with StrictMode returns no Result and an error of kind
\* ErrValidationFailed for every input that has a tag name or an attribute
\* name with an uppercase character, an unquoted attribute value, or a void
\* element not written in self-closing form (the parser, when it is reached,
\* returning a tree).
C10_StrictRejectsDefects ==
  (call = "Convert" /\ opts.StrictMode /\ Ended /\ HasDefect(input) /\ ~ParserFailed) =>
    /\ cv.ret.result = None
    /\ cv.ret.err # None
    /\ cv.ret.err[1].Code = ErrValidationFailed

(***************************************************************************)
(* Properties of the pipeline of the two execution modes.                  *)
(***************************************************************************)
Ran(phase) == \E i \in 1 .. Len(cv.ran) : cv.ran[i] = phase

\* what html.Parse returned to the call
ParseGot ==
  IF ParserFailed THEN [doc |-> None, err |-> Some(ParserError)]
  ELSE [doc |-> Some(TreeOf(src)), err |-> None]

\* two calls ended the same way: the same error kind, or else the same
\* Output, Changes and Success
SameOutcome(a, b) ==
  /\ a.outcome = b.outcome
  /\ (a.ret.err = None) = (b.ret.err = None)
  /\ (a.ret.result = None) = (b.ret.result = None)
  /\ (a.ret.err # None /\ b.ret.err # None) => a.ret.err[1].Code = b.ret.err[1].Code
  /\ (a.ret.result # None /\ b.ret.result # None) =>
       /\ a.ret.result[1].Output = b.ret.result[1].Output
       /\ a.ret.result[1].Changes = b.ret.result[1].Changes
       /\ a.ret.result[1].Success = b.ret.result[1].Success

\* C11: with a signal that is never done, ConvertWithContext ends as Convert
\* does on the same input and options (the parser returning the tree of the
\* input to both): the same error kind, or else the same Output, Changes
\* and Success.
C11_SameOutcomeAsConvert ==
  (call = "ConvertWithContext" /\ Ended /\ ctx = "live" /\ ~ParserFailed) =>
    SameOutcome(Cur, ConvertCall(NewCall(input, NewMetrics), input, opts, collector,
                                 ParseGot))

\* C12: in lenient mode without AutoFix, when the tree validator reports a
\* violation the call still returns a Result, the validator's error is in
\* the Result's Errors, and Success is false.
C12_LenientValidatorErrorRecovered ==
  (/\ call \in Entries /\ Ended /\ ~ObservedDone /\ ~ParserFailed
   /\ ~opts.StrictMode /\ ~opts.AutoFix
   /\ validateNode(TreeOf(src)) # None) =>
    /\ ReturnedResult
    /\ \E i \in 1 .. Len(cv.ret.result[1].Errors) :
         cv.ret.result[1].Errors[i] = validateNode(TreeOf(src))[1]
    /\ cv.ret.result[1].Success = FALSE

\* C13: when the parser fails, a strict call returns no Result and an
\* ErrParseFailed error whose cause is the parser's error; a lenient call
\* appends the parser's error to Errors, runs the remaining phases and
\* returns a Result with Success false.
C13_ParserFailure ==
  (call \in Entries /\ Ended /\ ParserFailed /\ ~ObservedDone) =>
    IF opts.StrictMode
    THEN /\ cv.ret.result = None
         /\ cv.ret.err # None
         /\ cv.ret.err[1].Code = ErrParseFailed
         /\ cv.ret.err[1].Cause = Some(ParserError)
    ELSE /\ ReturnedResult
         /\ Ran("render")
         /\ cv.ret.result[1].Errors = <<ParserError>>
         /\ cv.ret.result[1].Success = FALSE

\* C14: in strict mode a Result is returned only by a call none of whose
\* checks reported a problem (the scanner when it ran found no defect, the
\* parser returned a tree, the validator when it ran found no violation),
\* and every such Result has no Errors and Success true.
C14_StrictResultIsClean ==
  (call \in Entries /\ opts.StrictMode /\ ReturnedResult) =>
    /\ Ran("scan") => PreValidate(input) = << >>
    /\ Ran("parse") /\ ~ParserFailed
    /\ Ran("validate") => validateNode(cv.doc[1]) = None
    /\ cv.ret.result[1].Errors = << >>
    /\ cv.ret.result[1].Success = TRUE

\* C14 witness: a strict call scanned, parsed and validated a document with
\* elements and returned its Result.
C14_Witness ==
  /\ call = "Convert" /\ opts.StrictMode /\ ReturnedResult
  /\ Ran("scan") /\ Ran("validate")
  /\ Len(src) = 2

\* C15: every Result returned has FinalSize = the length of Output in
\* bytes, OriginalSize = the length of the input in bytes, and Success
\* exactly when its Errors are empty.
C15_ResultSizes ==
  (call \in Entries /\ ReturnedResult) =>
    /\ cv.ret.result[1].FinalSize = Len(cv.ret.result[1].Output)
    /\ cv.ret.result[1].OriginalSize = Len(input)
    /\ cv.ret.result[1].Success = (cv.ret.result[1].Errors = << >>)

\* C15 witness: a Result whose output is longer than a non-empty input.
C15_Witness ==
  /\ call \in Entries /\ ReturnedResult
  /\ Len(input) > 0
  /\ cv.ret.result[1].FinalSize > cv.ret.result[1].OriginalSize
  /\ cv.ret.result[1].Success

\* a tag name or an attribute name of the text has an uppercase character
HasUppercaseName(s) ==
  \E i \in TagsOf(s) :
    \/ HasUpper(TagName(s, i))
    \/ \E k \in AttrEquals(s, i) : HasUpper(AttrName(s, k))

\* C16: the Output of Convert with AutoFix has no tag name and no attribute
\* name with an uppercase character, whatever tree the parser returned.
C16_AutoFixOutputLowercase ==
  (call = "Convert" /\ opts.AutoFix /\ ReturnedResult) =>
    ~HasUppercaseName(cv.ret.result[1].Output)

\* C19: for an input without scanner defect whose tree has no validator
\* violation, Convert without AutoFix returns a Result whose Output is the
\* serialization of the tree as the parser returned it, with no Changes, no
\* Errors and Success true.
C19_CleanInputRoundTrip ==
  (/\ call = "Convert" /\ ~opts.AutoFix /\ Ended /\ ~ParserFailed
   /\ PreValidate(input) = << >>
   /\ validateNode(TreeOf(src)) = None) =>
    /\ ReturnedResult
    /\ cv.doc = Some(TreeOf(src))
    /\ cv.ret.result[1].Output = renderXHTML(TreeOf(src))
    /\ cv.ret.result[1].Changes = << >>
    /\ cv.ret.result[1].Errors = << >>
    /\ cv.ret.result[1].Success = TRUE

\* C19 witness: a strict Convert of a document of two clean elements
\* returned its Result.
C19_Witness ==
  /\ call = "Convert" /\ ~opts.AutoFix /\ opts.StrictMode /\ ReturnedResult
  /\ Len(src) = 2
  /\ PreValidate(input) = << >>

(***************************************************************************)
(* Properties of the Serializer and the Normalizer, on the text written:   *)
(* the tags with a name (a comment has none), opening or closing.          *)
(***************************************************************************)
NamedTags(s) == {i \in TagsOf(s) : TagName(s, i) # << >>}

IsClosingTag(s, i) == s[i + 1] = "/"

\* the tag at i ends with " />"
EndsSelfClosed(s, i) ==
  /\ TagEnd(s, i) - 2 > i
  /\ s[TagEnd(s, i) - 2] = " "
  /\ s[TagEnd(s, i) - 1] = "/"

\* the number of tags the claim lets a node contribute: one for a void
\* element, whose children are not rendered, and an opening and a closing
\* tag around the children of any other element
RECURSIVE TagsDue(_)
RECURSIVE TagsDueOfAll(_)
TagsDue(n) ==
  IF n.Type = "ElementNode"
  THEN IF n.Data \in VoidElements THEN 1 ELSE 2 + TagsDueOfAll(n.Kids)
  ELSE IF n.Type = "DocumentNode" THEN TagsDueOfAll(n.Kids)
  ELSE 0

TagsDueOfAll(kids) ==
  IF kids = << >> THEN 0 ELSE TagsDue(Head(kids)) + TagsDueOfAll(Tail(kids))

\* the text out is written as the claim says for the tree n
VoidFormOf(out, n) ==
  /\ \A i \in NamedTags(out) :
       IF TagName(out, i) \in VoidElements
       THEN ~IsClosingTag(out, i) /\ EndsSelfClosed(out, i)
       ELSE out[TagEnd(out, i) - 1] # "/"
  /\ \A i \in NamedTags(out) :
       TagName(out, i) \notin VoidElements =>
         Cardinality({j \in NamedTags(out) :
                        TagName(out, j) = TagName(out, i) /\ IsClosingTag(out, j)})
         = Cardinality({j \in NamedTags(out) :
                          TagName(out, j) = TagName(out, i) /\ ~IsClosingTag(out, j)})
  /\ Cardinality(NamedTags(out)) = TagsDue(n)

\* C17: in the serialization of a tree, every element whose tag is in the
\* void set is written as one tag ending in " />", without its children and
\* without a closing tag, and every other element as an opening tag, its
\* children and a closing tag.
C17_VoidElementsSelfClosed ==
  (fixes + 1 \in DOMAIN shown /\ shown[fixes + 1] # None) =>
    VoidFormOf(shown[fixes + 1][1], tnode)

\* C17 witness: the serialization, after fixNode, of an element that only
\* then is in the void set, with children that are no longer rendered.
C17_Witness ==
  /\ fixes = 1
  /\ shown[1] # None /\ shown[2] # None
  /\ tnode.Kids[1].Data = <<"i", "m", "g">>
  /\ Len(tnode.Kids[1].Kids) = 2
  /\ Len(tnode.Kids[1].Attr) = 1
  /\ Cardinality(NamedTags(shown[2][1])) = 1
  /\ Cardinality(NamedTags(shown[1][1])) > 2

\* C18: a second run of fixNode on the tree it has normalized changes no
\* tag and no attribute name, records no further Change, and the
\* serialization after it is the serialization after the first run.
C18_FixNodeIdempotent ==
  \A k \in 2 .. Len(after) :
    /\ after[k].tree = after[k - 1].tree
    /\ after[k].changes = after[k - 1].changes
    /\ (shown[k] # None /\ shown[k + 1] # None) => shown[k + 1] = shown[k]

\* C18 witness: a tree that the first run changed (a Change was recorded and
\* its serialization differs) has been run through fixNode twice and
\* serialized after each run.
C18_Witness ==
  /\ Len(after) = 2
  /\ after[1].changes >= 1
  /\ shown[1] # None /\ shown[2] # None /\ shown[3] # None
  /\ shown[1] # shown[2]

\* C20: Validate returns nil exactly when the scanner finds no defect in
\* the text and the tree validator no violation in the parsed tree; when the
\* scanner finds a defect, Validate returns the ErrValidationFailed error
\* built from the first defect reported (its message, ": ", its original
\* text) and neither parses nor consults the tree.
C20_ValidateScansFirst ==
  (call = "Validate" /\ Ended) =>
    /\ cv.outcome = "returned" /\ cv.ret.result = None
    /\ LET issues == PreValidate(input) IN
         /\ ~ParserFailed =>
              ((cv.ret.err = None)
                 <=> (issues = << >> /\ validateNode(TreeOf(src)) = None))
         /\ issues # << >> =>
              /\ cv.ret.err = Some(NewError(ErrValidationFailed,
                                            <<issues[1].Message, ": ",
                                              issues[1].Original>>, None))
              /\ cv.ran = <<"scan">>
              /\ cv.doc = None

\* C20 witness: Validate has returned for a text with a defect the scanner
\* finds whose tree also has a violation: the error is the scanner's.
C20_Witness ==
  /\ call = "Validate" /\ Ended
  /\ Len(PreValidate(input)) >= 2
  /\ validateNode(TreeOf(src)) # None
  /\ cv.ret.err # None
  /\ cv.ret.err[1].Cause = None

----
(***************************************************************************)
(* Properties of the errors returned.                                      *)
(***************************************************************************)
\* a Structured Error: an Error built by NewError, with one of the six kinds
IsStructuredError(e) == "Code" \in DOMAIN e /\ e.Code \in ErrorCodes

\* C21: every non-nil error an entry point returns is a Structured Error
\* carrying one of the six kinds, also when it reports a violation found by
\* validateNode. (Validate and ValidateWithContext here; the errors of
\* Convert and ConvertWithContext are all built by NewError.)
C21_ErrorsAreStructured ==
  (Ended /\ cv.ret.err # None) => IsStructuredError(cv.ret.err[1])

----
(***************************************************************************)
(* Properties of a collector used by one caller.                           *)
(***************************************************************************)
\* the snapshot the caller holds, as the caller reads it now
SnapshotNow ==
  [snap[1].s EXCEPT !.ChangesApplied = heap[snap[1].changesApplied],
                    !.ErrorsByType = heap[snap[1].errorsByType]]

\* a step with the caller holding a snapshot that is not a step of the
\* caller on the snapshot: a call on the collector, directly or by a
\* conversion
CollectorCalled == snap # << >> /\ snap' = snap

\* the caller writes to a map of the snapshot it holds
SnapshotWritten ==
  snap # << >> /\ snap' # << >> /\ snap'[1].writes = snap[1].writes + 1

\* C22: a snapshot returned by GetStats is a copy: no later RecordConversion,
\* RecordError, RecordChange or Reset on the collector changes any field of
\* it, the contents of its two maps included, and a write to one of its
\* maps does not change the collector.
C22_SnapshotIsCopy ==
  [][ /\ CollectorCalled => SnapshotNow' = SnapshotNow
      /\ SnapshotWritten =>
           /\ m' = m
           /\ MetricsGetStats(collector, m') = MetricsGetStats(collector, m) ]_vars

\* C22 witness: the caller holds a snapshot of a DefaultMetrics that showed a
\* change; since then the caller has written to its maps and the collector
\* has recorded more, so the two differ.
C22_Witness ==
  /\ collector = "DefaultMetrics"
  /\ snap # << >>
  /\ snap[1].s.ChangesApplied # EmptyMap
  /\ snap[1].writes > 0
  /\ calls.started >= snap[1].at + 2
  /\ m.changesApplied # snap[1].s.ChangesApplied
  /\ SnapshotNow.ChangesApplied # m.changesApplied

\* C23: after any sequence of RecordConversion, RecordError and RecordChange
\* calls, AverageDuration in a snapshot is the sum of the durations given to
\* RecordConversion divided (integer division) by the number of
\* RecordConversion calls, and 0 when there was none.
C23_AverageOverRecorded ==
  (collector = "DefaultMetrics" /\ resets = 0) =>
    GetStatsCall(m).AverageDuration
      = (IF calls.conv = 0 THEN 0 ELSE given \div calls.conv)

\* C24: once Reset has returned, a snapshot shows what was recorded since
\* and nothing of what was recorded before: every counter, both byte totals,
\* AverageDuration and both maps are those of the calls made after the
\* Reset, so all 0 and empty right after it.
C24_ResetStartsFromZero ==
  (collector = "DefaultMetrics" /\ resets > 0) =>
    LET s == GetStatsCall(m)
        failed == MapSum(calls.err)
    IN /\ s.SuccessfulConversions = calls.conv
       /\ s.FailedConversions = failed
       /\ s.TotalConversions = calls.conv + failed
       /\ \E i \in InputSizes : s.TotalBytesProcessed = i * calls.conv
       /\ \E o \in OutputSizes : s.TotalBytesOutput = o * calls.conv
       /\ s.AverageDuration
            = (IF calls.conv + failed = 0 THEN 0 ELSE given \div (calls.conv + failed))
       /\ s.ErrorsByType = calls.err
       /\ s.ChangesApplied = calls.chg
       /\ (calls.conv = 0 /\ calls.err = EmptyMap /\ calls.chg = EmptyMap) => s = NoOpStats

\* C24 witness: a change was recorded, Reset was called, and a conversion or
\* a failure was recorded after it.
C24_Witness ==
  /\ collector = "DefaultMetrics"
  /\ resets > 0
  /\ heap[1] # EmptyMap
  /\ calls.conv + MapSum(calls.err) >= 1

\* C25: whatever was called on it, the collector of a converter made by
\* New() returns statistics with every counter 0 and both maps empty; the
\* conversions of that converter change none of them.
C25_NoOpStaysZero ==
  collector = NewCollector =>
    /\ MetricsGetStats(collector, m) = NoOpStats
    /\ (snap # << >> /\ snap[1].writes = 0) => SnapshotNow = NoOpStats

\* C25 witness: on the no-op collector a conversion was recorded, the
\* converter made a conversion, Reset was called, and then GetStats.
C25_Witness ==
  /\ collector = "NoOpMetrics"
  /\ call = "Convert"
  /\ resets > 0
  /\ snap # << >>
  /\ snap[1].at = calls.started
  /\ calls.started >= 3

----
(***************************************************************************)
(* Properties of the Validator and the Normalizer on a tree.               *)
(***************************************************************************)
\* the nodes of a tree in document order, a parent before its children
RECURSIVE Preorder(_)
RECURSIVE PreorderOfAll(_)
Preorder(n) == <<n>> \o PreorderOfAll(n.Kids)

PreorderOfAll(kids) ==
  IF kids = << >> THEN << >> ELSE Preorder(Head(kids)) \o PreorderOfAll(Tail(kids))

UppercaseAttrs(n) == {i \in 1 .. Len(n.Attr) : n.Attr[i].Key # ToLower(n.Attr[i].Key)}

\* the first of the three rules the node breaks, 0 if it breaks none
RuleBroken(n) ==
  IF n.Type # "ElementNode" THEN 0
  ELSE IF n.Data # ToLower(n.Data) THEN 1
  ELSE IF n.Data \in VoidElements /\ Len(n.Kids) > 0 THEN 2
  ELSE IF UppercaseAttrs(n) # {} THEN 3
  ELSE 0

Least(S) == CHOOSE i \in S : \A j \in S : i <= j

\* the error the claim has validateNode return for a node that breaks a rule
ViolationOf(n) ==
  CASE RuleBroken(n) = 1 -> PlainError("tag must be lowercase: ", n.Data)
    [] RuleBroken(n) = 2 -> PlainError("void element cannot have children: ", n.Data)
    [] RuleBroken(n) = 3 ->
         PlainError("attribute must be lowercase: ", n.Attr[Least(UppercaseAttrs(n))].Key)

\* C26: validateNode returns the violation of the first node, in document
\* order with a parent before its children, that breaks a rule, and of that
\* node the first rule broken in the order tag name, children of a void
\* element, attribute names in attribute order; it returns nil exactly when
\* no element of the tree breaks a rule.
C26_FirstViolationInDocumentOrder ==
  checked # << >> =>
    LET nodes == Preorder(tnode)
        bad == {i \in 1 .. Len(nodes) : RuleBroken(nodes[i]) # 0}
    IN IF bad = {} THEN checked[1] = None
       ELSE checked[1] = Some(ViolationOf(nodes[Least(bad)]))

\* C26 witness: validateNode has run on a tree whose root element has a
\* lowercase name, a lowercase attribute followed by two uppercase ones, and
\* two children of which the first has an uppercase tag: it returned the
\* violation of the first uppercase attribute of the root.
C26_Witness ==
  /\ checked # << >>
  /\ tnode.Kids[1].Data = <<"p">>
  /\ Len(tnode.Kids[1].Attr) = 3
  /\ Len(tnode.Kids[1].Kids) = 2
  /\ RuleBroken(tnode.Kids[1].Kids[1]) = 1
  /\ checked[1] = Some(PlainError("attribute must be lowercase: ", <<"I", "D">>))

----
\* C27: without AutoFix, when validateNode finds a violation in the parsed
\* tree, a strict call returns no Result and an ErrValidationFailed error
\* without serializing; a lenient call goes on with the tree as parsed and
\* no Change recorded, and the Output it returns (it returns a Result unless
\* a later poll finds the signal done) is the serialization of the tree as
\* parsed, as if the validator had not run.
C27_ValidatorViolation ==
  (/\ call \in Entries /\ Ended /\ ~opts.AutoFix
   /\ Ran("validate") /\ validateNode(TreeOf(src)) # None) =>
    IF opts.StrictMode
    THEN /\ cv.outcome = "returned"
         /\ cv.ret.result = None
         /\ cv.ret.err # None
         /\ cv.ret.err[1].Code = ErrValidationFailed
         /\ ~Ran("render")
    ELSE /\ cv.doc = Some(TreeOf(src))
         /\ cv.result.Changes = << >>
         /\ ~ObservedDone => ReturnedResult
         /\ ReturnedResult =>
              /\ cv.ret.result[1].Output = renderXHTML(TreeOf(src))
              /\ cv.ret.result[1].Changes = << >>

\* C27 witness: a lenient Convert without AutoFix whose validator found a
\* violation has returned a Result.
C27_Witness ==
  /\ call = "Convert" /\ Ended
  /\ ~opts.AutoFix /\ ~opts.StrictMode
  /\ Ran("validate") /\ validateNode(TreeOf(src)) # None
  /\ ReturnedResult
  /\ Ran("render")

----
\* b is a with nothing changed but names: the same kind of node, the same
\* Data unless it is an element, whose tag is then the lowercase form of
\* a's, as many attributes in the same order with the same values and the
\* lowercase form of their names, and as many children in the same order,
\* each related to its counterpart in the same way
RECURSIVE OnlyNamesLowered(_, _)
OnlyNamesLowered(a, b) ==
  /\ b.Type = a.Type
  /\ b.Data = (IF a.Type = "ElementNode" THEN ToLower(a.Data) ELSE a.Data)
  /\ Len(b.Attr) = Len(a.Attr)
  /\ \A i \in 1 .. Len(a.Attr) :
       /\ b.Attr[i].Val = a.Attr[i].Val
       /\ b.Attr[i].Key = ToLower(a.Attr[i].Key)
  /\ Len(b.Kids) = Len(a.Kids)
  /\ \A i \in 1 .. Len(a.Kids) : OnlyNamesLowered(a.Kids[i], b.Kids[i])

\* a step in which fixNode runs on the tree
FixNodeRuns == fixes' = fixes + 1

\* C28: a run of fixNode changes only tag names and attribute names: the
\* nodes, their kinds and order, the number and order of the attributes,
\* every attribute value and every text and comment are as before, and
\* every tag name and attribute name is the lowercase form of what it was.
C28_FixNodeChangesOnlyNames ==
  [][FixNodeRuns => OnlyNamesLowered(tnode, tnode')]_vars

\* C28 witness: fixNode has run on a tree whose root had an uppercase tag
\* and three attributes, two of them with uppercase names and one with an
\* uppercase value, over a text or comment and an element with an uppercase
\* tag.
C28_Witness ==
  /\ fixes = 1
  /\ tchanges # << >>
  /\ tchanges[1].Original = <<"D", "I", "V">>
  /\ Len(tnode.Kids[1].Attr) = 3
  /\ tnode.Kids[1].Attr[3] = Attribute(<<"a", "l", "t">>, <<"Y">>)
  /\ Len(tnode.Kids[1].Kids) = 2
  /\ tnode.Kids[1].Kids[1].Type \in {"TextNode", "CommentNode"}
  /\ tnode.Kids[1].Kids[2].Data = <<"e", "m">>

\* the Changes the claim has fixNode append for a tree: one per element, in
\* document order, whose tag is not its lowercase form
TagChangesDue(n) ==
  LET nodes == Preorder(n)
      RECURSIVE From(_)
      From(i) ==
        IF i > Len(nodes) THEN << >>
        ELSE (IF nodes[i].Type = "ElementNode" /\ nodes[i].Data # ToLower(nodes[i].Data)
              THEN <<Change(ChangeUppercaseTag, "Converted tag to lowercase",
                            nodes[i].Data, ToLower(nodes[i].Data))>>
              ELSE << >>) \o From(i + 1)
  IN From(1)

\* C29: a run of fixNode appends to Changes one Change (uppercase-tag, the
\* old tag as Original, its lowercase form as Fixed) per element whose tag
\* was not lowercase, in document order with a parent's before its
\* children's, and none for an attribute name it rewrites; so it appends as
\* many Changes as there were elements with a tag not in lowercase.
C29_OneChangePerUppercaseTag ==
  [][FixNodeRuns =>
       /\ tchanges' = tchanges \o TagChangesDue(tnode)
       /\ Len(tchanges') - Len(tchanges)
            = Cardinality({i \in 1 .. Len(Preorder(tnode)) :
                             /\ Preorder(tnode)[i].Type = "ElementNode"
                             /\ Preorder(tnode)[i].Data # ToLower(Preorder(tnode)[i].Data)})
    ]_vars

\* C29 witness: fixNode has run on a tree with three elements with
\* uppercase tags, the root and its two children, and with uppercase
\* attribute names; the three Changes are in document order.
C29_Witness ==
  /\ fixes = 1
  /\ Len(tchanges) = 3
  /\ tchanges[1].Original = <<"I", "m", "g">>
  /\ tchanges[2].Original = <<"D", "I", "V">>
  /\ tchanges[3].Original = <<"E", "m">>
  /\ Len(tnode.Kids[1].Attr) = 3

----
\* C30: every Change in the Changes of a call with AutoFix was recorded for
\* a rewrite the call had applied to its tree: the Changes are those of the
\* tag names fixNode rewrote, and there is none when no rewrite was made.
C30_ChangesFollowMutations ==
  (call \in Entries /\ opts.AutoFix /\ ReturnedResult /\ ~ParserFailed) =>
    cv.ret.result[1].Changes
      = (IF Ran("fix") THEN TagChangesDue(TreeOf(src)) ELSE << >>)

----
(***************************************************************************)
(* Properties of the Scanner's list of issues.                             *)
(***************************************************************************)
\* the pattern of each class of issue, by IssueType
ClassPatterns == <<"uppercaseTagRe", "uppercaseAttrRe", "unquotedAttrRe", "unclosedVoidRe">>

\* where in the text the issue, the k-th of the list, is first matched: the
\* start of the first match of its class from which it would be made
FirstMatchOf(s, issue) ==
  LET re == ClassPatterns[issue.Type + 1]
      matches == FindAll(re, s)
  IN Least({matches[k][1] : k \in {k \in 1 .. Len(matches) :
                                      IssueOf(re, s, matches[k]) = issue}})

\* the list is in the order of the classes and, within a class, in the
\* order of the first matches
ScanOrdered(s, issues) ==
  \A i, j \in 1 .. Len(issues) :
    i < j =>
      \/ issues[i].Type < issues[j].Type
      \/ /\ issues[i].Type = issues[j].Type
         /\ FirstMatchOf(s, issues[i]) < FirstMatchOf(s, issues[j])

\* the names of the tags of the text that have an uppercase character
UppercaseTagNames(s) == {TagName(s, i) : i \in {i \in TagsOf(s) : HasUpper(TagName(s, i))}}

\* C31: the Scanner's list has the tag-casing issues first, then the
\* attribute-casing, the unquoted-value and the unclosed-void issues, each
\* class in the order of first occurrence in the text; a strict Convert
\* reports the first issue of the list; and for an input with a tag that has
\* an uppercase character the error reported is "Tag must be lowercase: "
\* followed by the name of such a tag, whatever other defects precede it.
C31_TagDefectReportedFirst ==
  (call = "Convert" /\ opts.StrictMode /\ Ended /\ ~ParserFailed) =>
    LET issues == PreValidate(input) IN
    /\ ScanOrdered(input, issues)
    /\ issues # << >> =>
         /\ cv.ret.err # None
         /\ cv.ret.err[1].Message = <<issues[1].Message, ": ", issues[1].Original>>
    /\ UppercaseTagNames(input) # {} =>
         /\ cv.ret.err # None
         /\ Len(cv.ret.err[1].Message) = 3
         /\ cv.ret.err[1].Message[1] = "Tag must be lowercase"
         /\ cv.ret.err[1].Message[3] \in UppercaseTagNames(input)

\* the part of C31 that is about the list and the issue reported alone
C31_ListOrderedFirstReported ==
  (call = "Convert" /\ opts.StrictMode /\ Ended) =>
    LET issues == PreValidate(input) IN
    /\ ScanOrdered(input, issues)
    /\ issues # << >> =>
         /\ cv.ret.err # None
         /\ cv.ret.err[1].Message = <<issues[1].Message, ": ", issues[1].Original>>

\* the texts matched by the pattern of a class
MatchedTexts(re, s) ==
  LET matches == FindAll(re, s)
  IN {SubSeq(s, matches[k][1], matches[k][2] - 1) : k \in 1 .. Len(matches)}

\* the message of the issues of each class
ClassMessages == <<"Tag must be lowercase", "Attribute must be lowercase",
                   "Attribute value must be quoted", "Void element must be self-closing">>

\* the issues of a class that a Convert with AutoFix recorded as Changes
RecordedOfClass(t) == SelectSeq(cv.result.Changes, LAMBDA c : c.Message = ClassMessages[t])

\* C32 as stated: each class has one issue per distinct matched text
C32_DedupByMatchedText ==
  (call = "Convert" /\ Ended /\ opts.AutoFix /\ ~opts.StrictMode) =>
    \A t \in 1 .. Len(ClassPatterns) :
      Len(RecordedOfClass(t)) = Cardinality(MatchedTexts(ClassPatterns[t], input))

\* what a matched text is known by in its class: the tag name, the
\* attribute name, the text itself, the name of the void element
NameIn(re, text) ==
  CASE re = "uppercaseTagRe"  -> SelectSeq(text, LAMBDA c : c \notin {"<", "/"})
    [] re = "uppercaseAttrRe" -> SelectSeq(text, LAMBDA c : c \notin SpaceChars \cup {"="})
    [] re = "unquotedAttrRe"  -> text
    [] re = "unclosedVoidRe"  -> Slice(text, 2, RunEnd(text, 2, Lower, FALSE) - 1)

\* the Original of the issue made for it
OriginalIn(re, text) ==
  IF re = "unclosedVoidRe" THEN <<"<">> \o NameIn(re, text) \o <<">">> ELSE NameIn(re, text)

\* C32: within one scan each class has one issue per distinct name among
\* its matches, the name being the tag name for the tag-casing class, the
\* attribute name for the attribute-casing class, the whole matched text for
\* the unquoted-value class and the element name for the unclosed-void
\* class; two matches with different texts and the same name yield one
\* issue. (The issues are those a Convert with AutoFix and without
\* StrictMode recorded as Changes.)
C32_DedupByName ==
  (call = "Convert" /\ Ended /\ opts.AutoFix /\ ~opts.StrictMode) =>
    \A t \in 1 .. Len(ClassPatterns) :
      LET re == ClassPatterns[t]
          ofType == RecordedOfClass(t)
          texts == MatchedTexts(re, input)
      IN /\ Len(ofType) = Cardinality({NameIn(re, x) : x \in texts})
         /\ {ofType[k].Original : k \in 1 .. Len(ofType)}
              = {OriginalIn(re, x) : x \in texts}

\* C32 witness: a scan has run on a text in which a void element is written
\* once without and once with an attribute, and gave one issue for both
C32_Witness ==
  /\ call = "Convert" /\ Ended /\ Ran("scan")
  /\ Cardinality(MatchedTexts("unclosedVoidRe", input)) = 2
  /\ Len(RecordedOfClass(4)) = 1
  /\ opts.AutoFix /\ ~opts.StrictMode
  /\ Len(cv.result.Changes) = 1

\* the change kind the claim gives to each class of issue
KindOfClass ==
  [t \in IssueUppercaseTag .. IssueUnclosedVoid |->
     CASE t = IssueUppercaseTag -> ChangeUppercaseTag
       [] t \in {IssueUppercaseAttr, IssueUnquotedAttr} -> ChangeUnquotedAttr
       [] t = IssueUnclosedVoid -> ChangeUnclosedTag]

\* C33: a Convert with AutoFix and without StrictMode has recorded, when the
\* parser is called and whatever the parser returns, exactly one Change per
\* issue of the scan, in the order of the scan, of the kind of the issue's
\* class (tag-casing: uppercase-tag; attribute-casing and unquoted value:
\* unquoted-attribute; unclosed void: unclosed-tag) and with its message and
\* texts; the Changes of the Result returned are at least as many as the
\* issues.
C33_EveryIssueBecomesChange ==
  (call = "Convert" /\ opts.AutoFix /\ ~opts.StrictMode /\ Ended) =>
    LET issues == PreValidate(input)
        changes == cv.result.Changes
    IN /\ Len(cv.ran) >= 2 /\ cv.ran[1] = "scan" /\ cv.ran[2] = "parse"
       /\ Len(changes) >= Len(issues)
       /\ \A i \in 1 .. Len(issues) :
            /\ changes[i].Type = KindOfClass[issues[i].Type]
            /\ changes[i].Message = issues[i].Message
            /\ changes[i].Original = issues[i].Original
            /\ changes[i].Fixed = issues[i].Fixed
       /\ ParserFailed => Len(changes) = Len(issues)
       /\ ReturnedResult =>
            /\ Len(cv.ret.result[1].Changes) >= Len(issues)
            /\ SubSeq(cv.ret.result[1].Changes, 1, Len(issues)) = SubSeq(changes, 1, Len(issues))

\* C33 witness: such a call has returned a Result whose Changes are those of
\* a tag-casing, an unquoted-value and an unclosed-void issue, in this order
C33_Witness ==
  /\ call = "Convert" /\ opts.AutoFix /\ ~opts.StrictMode /\ ReturnedResult
  /\ Len(PreValidate(input)) = 3
  /\ [i \in 1 .. 3 |-> cv.ret.result[1].Changes[i].Type]
       = <<ChangeUppercaseTag, ChangeUnquotedAttr, ChangeUnclosedTag>>
  /\ cv.ret.result[1].Changes[1].Original = <<"D", "I", "V">>

----
(***************************************************************************)
(* Properties of the Serializer, write by write.                           *)
(***************************************************************************)
\* a step in which renderXHTML runs on the tree
RenderRuns == sunk = << >> /\ sunk' # << >>

C34_BufferNeverRefuses ==
  (call \in Entries /\ ReturnedError) => cv.ret.err[1].Code # ErrConversionFailed

----
(***************************************************************************)
(* Properties of Reset among concurrent recording calls.                   *)
(***************************************************************************)
\* C35: once every call has returned, Reset calls among them, a snapshot
\* has TotalConversions = SuccessfulConversions + FailedConversions and
\* FailedConversions = the sum of ErrorsByType over the kinds.
C35_ConsistentAfterReset ==
  (AllReturned /\ resets > 0) =>
    LET s == GetStatsCall(m) IN
      /\ SnapshotSums(s)
      /\ s.FailedConversions = MapSum(s.ErrorsByType)

----
(***************************************************************************)
(* Validate and ValidateWithContext compared.                              *)
(***************************************************************************)
\* the kind of an error returned: that of a Structured Error, none otherwise
KindOf(e) == IF "Code" \in DOMAIN e THEN e.Code ELSE "none"

\* C36: with a signal that is never done, ValidateWithContext returns nil
\* exactly when Validate does on the same input (the parser returning the
\* tree of the input to both), an error of the same kind when both return
\* one, and an error for every input in which the scanner finds a defect.
C36_SameAsValidate ==
  (call = "ValidateWithContext" /\ Ended /\ ctx = "live" /\ ~ParserFailed) =>
    LET v == ValidateCall(NewCall(input, NewMetrics), input, ParseGot) IN
      /\ (cv.ret.err = None) <=> (v.ret.err = None)
      /\ (cv.ret.err # None /\ v.ret.err # None) =>
           KindOf(cv.ret.err[1]) = KindOf(v.ret.err[1])
      /\ PreValidate(input) # << >> => cv.ret.err # None

----
(***************************************************************************)
(* The Validator on a tree the Normalizer has run on.                      *)
(***************************************************************************)
\* the void elements of a tree that have a child, in document order
VoidWithChildren(n) ==
  SelectSeq(Preorder(n), LAMBDA x : x.Type = "ElementNode" /\ x.Data \in VoidElements
                                    /\ x.Kids # << >>)

\* C37: validateNode on a tree on which fixNode has run returns nil or the
\* error "void element cannot have children" of a void element of the tree
\* that has a child, never a tag-casing or attribute-casing error; it
\* returns that error whenever the tree has such an element, since fixNode
\* removes no child.
C37_FixedTreeFailsOnlyOnVoidChildren ==
  (checked # << >> /\ fixes > 0) =>
    LET bad == VoidWithChildren(checked[2]) IN
    IF bad = << >> THEN checked[1] = None
    ELSE /\ checked[1] # None
         /\ checked[1][1].Text = "void element cannot have children: "
         /\ checked[1][1] = PlainError("void element cannot have children: ", bad[1].Data)

\* C37 witness: the root element was written Img, with uppercase attribute
\* names and two children; fixNode has run, and validateNode has then
\* returned the error of img having children.
C37_Witness ==
  /\ checked # << >> /\ fixes > 0
  /\ Len(tchanges) >= 1 /\ tchanges[1].Original = <<"I", "m", "g">>
  /\ Len(checked[2].Kids[1].Attr) = 3
  /\ Len(checked[2].Kids[1].Kids) = 2
  /\ checked[1] = Some(PlainError("void element cannot have children: ", <<"i", "m", "g">>))

----
(***************************************************************************)
(* Properties of the middleware's cache.                                   *)
(***************************************************************************)
\* every entry of the cache is the Output of a conversion of a response of
\* its path that returned no error and Success
CacheHoldsGoodOutputs ==
  cache # None => \A p \in DOMAIN cache[1] : <<p, cache[1][p]>> \in good

\* the reply last written: a cache hit serves such an Output of its path,
\* and a response whose conversion failed is forwarded with its own body
\* and status
ReplyAsDue ==
  last # << >> =>
    /\ last[1].how = "hit" =>
         /\ last[1].reply # None
         /\ <<last[1].path, last[1].reply[1].body>> \in good
    /\ last[1].how = "failed" =>
         /\ last[1].reply # None
         /\ last[1].reply[1].body = TextOf(last[1].rw[1].body)
         /\ last[1].reply[1].status = last[1].rw[1].status

\* the cache is written by the handler of a request whose conversion
\* returned no error and Success, with the Output, under the request's path
CacheWrittenAfterSuccess ==
  cache' # cache =>
    \E i \in DOMAIN pending :
      LET ret == pending[i].w.ret IN
      /\ pending[i].pc = "set"
      /\ ret.err = None /\ ret.result # None /\ ret.result[1].Success
      /\ <<pending[i].path, ret.result[1].Output>> \in good
      /\ cache' = Some(MapSet(cache[1], pending[i].path, ret.result[1].Output))

\* a handler whose conversion returned an error or a Result without Success
\* goes on to forward the original and does not write the cache
FailedLeavesCache ==
  /\ (last' # last /\ last'[1].how = "failed") => cache' = cache
  /\ \A i \in DOMAIN pending \cap DOMAIN pending' :
       (/\ pending[i].pc = "convert" /\ pending'[i].pc # "convert"
        /\ pending[i].w.outcome = "returned"
        /\ (pending[i].w.ret.err # None \/ ~pending[i].w.ret.result[1].Success))
         => pending'[i].pc = "forward" /\ pending'[i].how = "failed" /\ cache' = cache

\* C38: the cache is written only by a request whose conversion returned no
\* error and a Result with Success, with that Result's Output under the
\* request's path; a request whose conversion returned an error or a Result
\* without Success is answered with the original body and status and leaves
\* the cache as it was; so every cache hit serves an Output of a successful
\* conversion of a response of its path.
C38_CacheHoldsSuccessfulConversions ==
  [][/\ CacheWrittenAfterSuccess
     /\ FailedLeavesCache
     /\ CacheHoldsGoodOutputs'
     /\ ReplyAsDue']_vars

\* C38 witness: with the cache enabled, a response of a path was converted
\* and stored while a second request for the path was in flight, and that
\* request was then served from the cache
C38_Witness ==
  /\ cache # None /\ served = 2 /\ DOMAIN pending = {}
  /\ last # << >> /\ last[1].how = "hit" /\ last[1].id = 2
  /\ last[1].reply = Some(writeXHTML(cache[1][last[1].path], StatusOK))
  /\ <<last[1].path, last[1].reply[1].body>> \in good

====
